---------------------------- MODULE Spec2Model ----------------------------
(***************************************************************************)
(* Model of the poker core of czy-29/pokerbot (src/src/gameplay.rs): the   *)
(* card model, the fixed-size card set CardsCombined<N>, the 5-card hand   *)
(* ranker, the 7-card evaluator, the board, the parser and the nut finder, *)
(* and of the Deck and the Dealer of src/src/gameplay/headsup.rs.          *)
(*                                                                         *)
(* A Value is represented by its enum discriminant (Deuce = 0 .. Ace = 12, *)
(* the order #[derive(Ord)] gives it), a Suit by its index (Spades = 0 ..  *)
(* Clubs = 3), a Card by the pair <<value, suit>>, and an array [T; N] or  *)
(* a Vec<T> by a sequence.                                                 *)
(***************************************************************************)
EXTENDS Integers, Sequences, FiniteSets, TLC

(***************************************************************************)
(* Value, Suit, Card                                                       *)
(***************************************************************************)
Deuce == 0
Trey == 1
Four == 2
Five == 3
Six == 4
Seven == 5
Eight == 6
Nine == 7
Ten == 8
Jack == 9
Queen == 10
King == 11
Ace == 12
ACE_HIGH == 13

Spades == 0
Hearts == 1
Diamonds == 2
Clubs == 3

Values == Deuce .. Ace
Suits == Spades .. Clubs

Card(v, s) == <<v, s>>
value(c) == c[1]
suit(c) == c[2]

\* Value::as_u8: the discriminant itself.
Value_as_u8(v) == v
\* Suit::as_u8
Suit_as_u8(s) == s
\* Value::as_u8_straight
as_u8_straight(v) == Value_as_u8(v) + 1
\* Value::from_u8_straight; "unreachable" stands for the unreachable!() arm.
from_u8_straight(u) ==
    IF u = 0 \/ u = 13 THEN Ace
    ELSE IF u >= 1 /\ u <= 12 THEN u - 1
    ELSE "unreachable"
\* Card::as_u8: (value << 2) | suit
Card_as_u8(c) == Value_as_u8(value(c)) * 4 + Suit_as_u8(suit(c))

(***************************************************************************)
(* Helpers on sequences                                                    *)
(***************************************************************************)
Range(f) == {f[i] : i \in DOMAIN f}
SeqMax(S) == CHOOSE x \in S : \A y \in S : y <= x
SeqMin(S) == CHOOSE x \in S : \A y \in S : x <= y

\* Mutant of all_unique: only neighbours are compared.
all_unique_adjacent(a) == \A i \in 1 .. (Len(a) - 1) : a[i] # a[i + 1]
\* itertools all_unique
all_unique(a) == \A i, j \in DOMAIN a : i # j => a[i] # a[j]
\* itertools all_equal
all_equal(a) == \A i, j \in DOMAIN a : a[i] = a[j]

\* Insert x into the ascending sequence a.
RECURSIVE InsertAsc(_, _)
InsertAsc(x, a) ==
    IF a = <<>> THEN <<x>>
    ELSE IF x <= Head(a) THEN <<x>> \o a
    ELSE <<Head(a)>> \o InsertAsc(x, Tail(a))
\* slice::sort_unstable on integers: the ascending rearrangement.
RECURSIVE sort_unstable(_)
sort_unstable(a) ==
    IF a = <<>> THEN <<>> ELSE InsertAsc(Head(a), sort_unstable(Tail(a)))
Reverse(a) == [i \in 1 .. Len(a) |-> a[Len(a) + 1 - i]]
\* The elements of a set of integers, highest first.
RECURSIVE SetDesc(_)
SetDesc(S) ==
    IF S = {} THEN <<>>
    ELSE LET m == SeqMax(S) IN <<m>> \o SetDesc(S \ {m})

\* Itertools::array_combinations::<k>: the k-element subsequences of a, in
\* lexicographic order of their positions.
RECURSIVE array_combinations(_, _)
array_combinations(a, k) ==
    IF k = 0 THEN <<<<>>>>
    ELSE IF Len(a) < k THEN <<>>
    ELSE LET with == array_combinations(Tail(a), k - 1)
         IN [i \in 1 .. Len(with) |-> <<Head(a)>> \o with[i]]
                \o array_combinations(Tail(a), k)

(***************************************************************************)
(* CardsCombined<N>                                                        *)
(***************************************************************************)
\* The step of slice::sort_by (stable): x goes before the first element
\* whose as_u8 is greater.
RECURSIVE InsertByAsU8(_, _)
InsertByAsU8(x, a) ==
    IF a = <<>> THEN <<x>>
    ELSE IF Card_as_u8(x) < Card_as_u8(Head(a)) THEN <<x>> \o a
    ELSE <<Head(a)>> \o InsertByAsU8(x, Tail(a))
RECURSIVE sort_by_as_u8(_)
sort_by_as_u8(a) ==
    IF a = <<>> THEN <<>>
    ELSE InsertByAsU8(a[Len(a)], sort_by_as_u8(SubSeq(a, 1, Len(a) - 1)))
\* Mutant of sorted: the array as it is.
sorted_unsorted(cs) == cs
\* CardsCombined::sorted
sorted(cs) == sort_by_as_u8(cs)

\* impl PartialEq for CardsCombined
CardsCombined_eq(x, y) == sorted(x) = sorted(y)

\* #[derive(Hash)] on Card: the discriminants of the value and of the suit
Card_hash(c) == <<value(c), suit(c)>>
\* Hash for a slice of cards: each card in the order of the slice
RECURSIVE hash_slice(_)
hash_slice(a) ==
    IF a = <<>> THEN <<>> ELSE Card_hash(Head(a)) \o hash_slice(Tail(a))
\* #[derive(Hash)] on CardsCombined: the length prefix of the array, then
\* the cards of the array as they are stored
CardsCombined_hash(cs) == <<Len(cs)>> \o hash_slice(cs)

\* CardsCombined::is_flush
is_flush(cs) == all_equal([i \in DOMAIN cs |-> suit(cs[i])])

\* CardsCombined::to_sorted_values: the values, highest first.
to_sorted_values(cs) ==
    Reverse(sort_unstable([i \in DOMAIN cs |-> Value_as_u8(value(cs[i]))]))

\* Option<T>: None is the empty sequence, Some(x) the sequence <<x>>.
None == <<>>
Some(x) == <<x>>

\* CardsCombined::new
new(cards) == IF ~all_unique(cards) THEN None ELSE Some(cards)

\* CardsCombined::check_straight
check_straight(u8s) ==
    LET s == sort_unstable(u8s) IN
    IF \A i \in 1 .. (Len(s) - 1) : s[i + 1] = s[i] + 1
    THEN Some(from_u8_straight(s[Len(s)]))
    ELSE None

\* Mutant of AceLow: the Ace is not remapped.
AceLow_kept(u8s) == u8s

\* The wheel retry of is_straight: the first ACE_HIGH entry becomes 0.
AceLow(u8s) ==
    LET first == SeqMin({i \in DOMAIN u8s : u8s[i] = ACE_HIGH})
    IN [u8s EXCEPT ![first] = 0]

\* CardsCombined::is_straight
is_straight(cs) ==
    LET u8s == [i \in DOMAIN cs |-> as_u8_straight(value(cs[i]))]
        first == check_straight(u8s)
    IN IF first = None /\ (\E i \in DOMAIN u8s : u8s[i] = ACE_HIGH)
       THEN check_straight(AceLow(u8s))
       ELSE first

(***************************************************************************)
(* ValueMap: count -> set of the values that occur count times             *)
(***************************************************************************)
\* impl From<&[Card]> for ValueMap: a function on the counts that occur.
ValueMap(cs) ==
    LET vs == [i \in DOMAIN cs |-> value(cs[i])]
        vals == Range(vs)
        count == [v \in vals |-> Cardinality({i \in DOMAIN vs : vs[i] = v})]
    IN [k \in Range(count) |-> {v \in vals : count[v] = k}]

\* Mutant of to_count_pairs: the lowest count first.
to_count_pairs_asc(vm) ==
    LET ks == Reverse(SetDesc(DOMAIN vm))
    IN [i \in 1 .. Len(ks) |-> <<ks[i], Cardinality(vm[ks[i]])>>]
\* ValueMap::to_count_pairs: (count, number of values), highest count first.
to_count_pairs(vm) ==
    LET ks == SetDesc(DOMAIN vm)
    IN [i \in 1 .. Len(ks) |-> <<ks[i], Cardinality(vm[ks[i]])>>]

\* ValueMap::to_sorted_values: by count descending, then value descending.
RECURSIVE FlatDesc(_, _)
FlatDesc(vm, ks) ==
    IF ks = <<>> THEN <<>> ELSE SetDesc(vm[Head(ks)]) \o FlatDesc(vm, Tail(ks))
\* Mutant of vm_to_sorted_values: within a count the lowest value first.
vm_to_sorted_values_inner_asc(vm) ==
    LET ks == SetDesc(DOMAIN vm)
        part == [i \in 1 .. Len(ks) |-> Reverse(SetDesc(vm[ks[i]]))]
    IN IF Len(ks) = 1 THEN part[1]
       ELSE IF Len(ks) = 2 THEN part[1] \o part[2]
       ELSE part[1] \o part[2] \o part[3]
\* Mutant of vm_to_sorted_values: by value alone, the counts ignored.
vm_to_sorted_values_by_value(vm) == SetDesc(UNION {vm[k] : k \in DOMAIN vm})
vm_to_sorted_values(vm) == FlatDesc(vm, SetDesc(DOMAIN vm))

(***************************************************************************)
(* HandValue / SortedHandValue                                             *)
(***************************************************************************)
HV(c, p) == [cat |-> c, vals |-> p]

\* impl From<CardsCombined<5>> for HandValue
HandValueFrom(cs) ==
    LET flush == is_flush(cs)
        straight == is_straight(cs)
    IN IF straight # None
       THEN LET largest_value == straight[1]
            IN IF flush
               THEN IF largest_value = Ace THEN HV("RoyalFlush", <<>>)
                    ELSE HV("StraightFlush", <<largest_value>>)
               ELSE HV("Straight", <<largest_value>>)
       ELSE IF flush THEN HV("Flush", to_sorted_values(cs))
       ELSE LET vm == ValueMap(cs)
                sv == vm_to_sorted_values(vm)
                cp == to_count_pairs(vm)
            IN IF cp = <<<<4, 1>>, <<1, 1>>>> THEN HV("Quads", sv)
               ELSE IF cp = <<<<3, 1>>, <<2, 1>>>> THEN HV("FullHouse", sv)
               ELSE IF cp = <<<<3, 1>>, <<1, 2>>>> THEN HV("Trips", sv)
               ELSE IF cp = <<<<2, 2>>, <<1, 1>>>> THEN HV("TwoPair", sv)
               ELSE IF cp = <<<<2, 1>>, <<1, 3>>>> THEN HV("OnePair", sv)
               ELSE IF cp = <<<<1, 5>>>> THEN HV("HighCard", sv)
               ELSE HV("unreachable", <<>>)

\* Mutant of array_cmp: only the leading element is compared.
array_cmp_leading(a, b) ==
    IF a = <<>> \/ a[1] = b[1] THEN "Equal"
    ELSE IF a[1] < b[1] THEN "Less" ELSE "Greater"

\* Ord for [Value; N]: lexicographic.
array_cmp(a, b) ==
    LET diff == {i \in DOMAIN a : a[i] # b[i]}
    IN IF diff = {} THEN "Equal"
       ELSE LET i == SeqMin(diff)
            IN IF a[i] < b[i] THEN "Less" ELSE "Greater"

\* impl Ord for SortedHandValue. The match goes through the variants in the
\* order of MatchArms, three arms each: (C, C) compares the payloads, (C, _)
\* is Greater, (_, C) is Less. The first arm that matches is therefore the
\* one of whichever variant of the two operands MatchArms lists first.
MatchArms ==
    <<"RoyalFlush", "StraightFlush", "Quads", "FullHouse", "Flush", "Straight",
      "Trips", "TwoPair", "OnePair", "HighCard">>
ArmOf == [c \in Range(MatchArms) |-> CHOOSE i \in DOMAIN MatchArms : MatchArms[i] = c]
cmp(x, y) ==
    IF x.cat = y.cat THEN array_cmp(x.vals, y.vals)
    ELSE IF ArmOf[x.cat] < ArmOf[y.cat] THEN "Greater"
    ELSE "Less"

(***************************************************************************)
(* Seven-card evaluator                                                    *)
(***************************************************************************)
\* Mutant of ord_max: the smaller operand is kept.
ord_max_smaller(x, y) == IF cmp(y, x) = "Less" THEN y ELSE x

\* Ord::max, the reduction of ParallelIterator::max: the right operand
\* unless the left one is Greater.
ord_max(x, y) == IF cmp(x, y) = "Greater" THEN x ELSE y

\* map(From::from) over a run of five-card arrays
map_from(items) == [i \in DOMAIN items |-> HandValueFrom(items[i])]

\* The reduction of a run of mapped items: folded, left to right, into acc
\* (None: nothing yet).
RECURSIVE fold_max(_, _)
fold_max(acc, items) ==
    IF items = <<>> THEN acc
    ELSE fold_max(IF acc = None THEN Some(Head(items))
                  ELSE Some(ord_max(acc[1], Head(items))),
                  Tail(items))

\* The positions array_combinations::<5> takes from an array of seven.
FiveOfSeven == array_combinations(<<1, 2, 3, 4, 5, 6, 7>>, 5)
\* self.0.into_iter().array_combinations::<5>().collect::<Vec<_>>()
five_card_arrays(cs) ==
    [i \in DOMAIN FiveOfSeven |-> [j \in 1 .. 5 |-> cs[FiveOfSeven[i][j]]]]

\* CardsCombined<7>::hand_value, the items reduced in slice order.
hand_value(cs) == fold_max(None, map_from(five_card_arrays(cs)))[1]

\* FullBoard::to_seven
to_seven(board, hole) ==
    <<hole[1], hole[2], board[1], board[2], board[3], board[4], board[5]>>

\* FullBoard::hand_value
FullBoard_hand_value(board, hole) == hand_value(to_seven(board, hole))

\* Mutant of who_wins_match: the Less arm returns the flag of the Greater arm.
who_wins_match_flag(a, b) ==
    LET o == cmp(a, b)
    IN IF o = "Greater" THEN <<a, Some(TRUE)>>
       ELSE IF o = "Less" THEN <<b, Some(TRUE)>>
       ELSE <<a, None>>

\* The match of FullBoard::who_wins on v1.cmp(&v2).
who_wins_match(a, b) ==
    LET o == cmp(a, b)
    IN IF o = "Greater" THEN <<a, Some(TRUE)>>
       ELSE IF o = "Less" THEN <<b, Some(FALSE)>>
       ELSE <<a, None>>

\* FullBoard::who_wins
who_wins(board, h1, h2) ==
    who_wins_match(FullBoard_hand_value(board, h1), FullBoard_hand_value(board, h2))

(***************************************************************************)
(* Hole, StraightSolve, FindNuts and the nut finder of Board               *)
(***************************************************************************)
\* Mutant of contains_value: only the first card is looked at.
contains_value_first(cs, v) == value(cs[1]) = v
\* CardsCombined::contains_value
contains_value(cs, v) == \E i \in DOMAIN cs : value(cs[i]) = v
\* Mutant of contains_card: only the first card is looked at.
contains_card_first(cs, c) == cs[1] = c
\* CardsCombined::contains_card
contains_card(cs, c) == \E i \in DOMAIN cs : cs[i] = c
\* Hole::is_pocket
is_pocket(hole, v) == \A i \in DOMAIN hole : value(hole[i]) = v
\* Mutant of is_suited: every hole counts as suited.
is_suited_always(hole) == TRUE
\* Hole::is_suited
is_suited(hole) == is_flush(hole)
\* Hole::is_of_values
is_of_values(hole, values) ==
    contains_value(hole, values[1]) /\ contains_value(hole, values[2])
\* Mutant of from_values_suited: the first value is taken twice.
from_values_suited_same(values, s) == <<Card(values[1], s), Card(values[1], s)>>
\* Hole::from_values_suited
from_values_suited(values, s) == <<Card(values[1], s), Card(values[2], s)>>

\* enum StraightSolve: None, One(Value), Two([Value; 2])
StraightSolve(k, v) == [k |-> k, v |-> v]
\* StraightSolve::last
StraightSolve_last(solve) ==
    IF solve.k = "None" THEN None
    ELSE IF solve.k = "One" THEN Some(solve.v[1])
    ELSE Some(solve.v[2])

\* enum FindNuts: the variant and its fields; "unreachable" stands for a
\* panic in an unreachable!() arm.
FindNuts(kind, fields) == [kind |-> kind, fields |-> fields]
FindNuts_unreachable == FindNuts("unreachable", <<>>)

\* impl PartialEq<Hole> for FindNuts
FindNuts_eq(self, other) ==
    LET f == self.fields IN
    CASE self.kind = "PocketPair" -> is_pocket(other, f[1])
      [] self.kind = "OneValue" -> contains_value(other, f[1])
      [] self.kind = "TwoValues" -> is_of_values(other, f[1])
      [] self.kind = "PocketOrTwo" -> is_pocket(other, f[1]) \/ is_of_values(other, f[2])
      [] self.kind \in {"OneHole", "TwoHoles", "ThreeHoles"} ->
             \E i \in DOMAIN f : CardsCombined_eq(f[i], other)
      [] self.kind = "CardPlusAny" -> contains_card(other, f[1])
      [] self.kind = "CardPlusAnySuited" -> contains_card(other, f[1]) /\ is_suited(other)
      [] self.kind = "AnyTwo" -> TRUE

\* Board::flush_cards: the suit three or more of the cards share, with those
\* cards in board order (five cards hold at most one such suit).
flush_cards(cards) ==
    LET group(s) == SelectSeq(cards, LAMBDA c : suit(c) = s)
        found == {s \in Suits : Len(group(s)) >= 3}
    IN IF found = {} THEN None
       ELSE LET s == CHOOSE x \in found : TRUE IN Some(<<s, group(s)>>)

\* Board::paired
paired(cards) == ~all_unique([i \in DOMAIN cards |-> value(cards[i])])

\* Mutant of IndexSet_insert: a solve found again is kept twice.
IndexSet_insert_dup(set, x) == Append(set, x)
\* IndexSet::insert: appended unless already there.
IndexSet_insert(set, x) ==
    IF \E i \in DOMAIN set : set[i] = x THEN set ELSE Append(set, x)

\* The loop of straight_scan from window start down to range_start.
RECURSIVE scan_windows(_, _, _, _, _)
scan_windows(start, range_start, remain_set, only_first, solves) ==
    IF start < range_start THEN solves
    ELSE LET solve == Reverse(SetDesc(remain_set \cap (start .. (start + 4))))
         IN IF Len(solve) > 2
            THEN scan_windows(start - 1, range_start, remain_set, only_first, solves)
            ELSE IF Len(solve) = 0
            THEN IndexSet_insert(solves, StraightSolve("None", <<>>))
            ELSE LET found ==
                         IF Len(solve) = 1
                         THEN StraightSolve("One", <<from_u8_straight(solve[1])>>)
                         ELSE StraightSolve("Two", <<from_u8_straight(solve[2]),
                                                     from_u8_straight(solve[1])>>)
                     inserted == IndexSet_insert(solves, found)
                 IN IF only_first THEN inserted
                    ELSE scan_windows(start - 1, range_start, remain_set,
                                      only_first, inserted)

\* Mutant of straight_scan: remain_high is the lowest remaining rank.
straight_scan_remain_low(cards, only_first) ==
    LET u8s == {as_u8_straight(value(cards[i])) : i \in DOMAIN cards}
        values == IF ACE_HIGH \in u8s THEN u8s \cup {0} ELSE u8s
        first == SeqMin(values)
        last == SeqMax(values)
        range_start == (IF first > 2 THEN first ELSE 2) - 2
        range_end == (IF ACE_HIGH < last + 2 THEN ACE_HIGH ELSE last + 2) - 4
        remain_set == (0 .. 13) \ values
        remain_high == from_u8_straight(SeqMin(remain_set))
    IN <<remain_high,
         scan_windows(range_end, range_start, remain_set, only_first, <<>>)>>
\* Mutant of straight_scan: the Ace is not counted low.
straight_scan_no_wheel(cards, only_first) ==
    LET values == {as_u8_straight(value(cards[i])) : i \in DOMAIN cards}
        first == SeqMin(values)
        last == SeqMax(values)
        range_start == (IF first > 2 THEN first ELSE 2) - 2
        range_end == (IF ACE_HIGH < last + 2 THEN ACE_HIGH ELSE last + 2) - 4
        remain_set == (0 .. 13) \ values
        remain_high == from_u8_straight(SeqMax(remain_set))
    IN <<remain_high,
         scan_windows(range_end, range_start, remain_set, only_first, <<>>)>>
\* Board::straight_scan: <<remain_high, solves>>
straight_scan(cards, only_first) ==
    LET u8s == {as_u8_straight(value(cards[i])) : i \in DOMAIN cards}
        values == IF ACE_HIGH \in u8s THEN u8s \cup {0} ELSE u8s
        first == SeqMin(values)
        last == SeqMax(values)
        range_start == (IF first > 2 THEN first ELSE 2) - 2
        range_end == (IF ACE_HIGH < last + 2 THEN ACE_HIGH ELSE last + 2) - 4
        remain_set == (0 .. 13) \ values
        remain_high == from_u8_straight(SeqMax(remain_set))
    IN <<remain_high,
         scan_windows(range_end, range_start, remain_set, only_first, <<>>)>>

\* Board::quads_full_house
quads_full_house(cards) ==
    LET value_map == ValueMap(cards)
        sorted_values == vm_to_sorted_values(value_map)
        cp == to_count_pairs(value_map)
    IN IF cp = <<<<3, 1>>>> \/ (Len(cp) = 2 /\ cp[1] = <<3, 1>> /\ cp[2][1] = 1)
       THEN FindNuts("OneValue", <<sorted_values[1]>>)
       ELSE IF Len(cp) = 2 /\ cp[1] = <<2, 1>> /\ cp[2][1] = 1
       THEN LET pair == sorted_values[1]
                single_high == sorted_values[2]
            IN IF pair > single_high
               THEN FindNuts("PocketOrTwo", <<pair, <<pair, single_high>>>>)
               ELSE FindNuts("PocketPair", <<pair>>)
       ELSE IF cp = <<<<4, 1>>>>
       THEN (IF sorted_values[1] = Ace THEN FindNuts("OneValue", <<King>>)
             ELSE FindNuts("OneValue", <<Ace>>))
       ELSE IF cp = <<<<2, 2>>>>
       THEN FindNuts("PocketOrTwo",
                     <<sorted_values[1], <<sorted_values[1], sorted_values[2]>>>>)
       ELSE IF cp = <<<<4, 1>>, <<1, 1>>>>
       THEN LET quad == sorted_values[1]
                kicker == sorted_values[2]
            IN IF quad = Ace
               THEN (IF kicker = King THEN FindNuts("AnyTwo", <<>>)
                     ELSE FindNuts("OneValue", <<King>>))
               ELSE (IF kicker = Ace THEN FindNuts("AnyTwo", <<>>)
                     ELSE FindNuts("OneValue", <<Ace>>))
       ELSE IF cp = <<<<3, 1>>, <<2, 1>>>>
       THEN LET trip == sorted_values[1]
                pair == sorted_values[2]
            IN IF pair > trip
               THEN FindNuts("PocketOrTwo", <<pair, <<pair, trip>>>>)
               ELSE FindNuts("OneValue", <<trip>>)
       ELSE IF cp = <<<<2, 2>>, <<1, 1>>>>
       THEN LET pair_high == sorted_values[1]
                pair_low == sorted_values[2]
                single == sorted_values[3]
            IN IF pair_low > single
               THEN FindNuts("PocketOrTwo", <<pair_high, <<pair_high, pair_low>>>>)
               ELSE FindNuts("PocketPair", <<pair_high>>)
       ELSE FindNuts_unreachable

\* The branch of find_nuts taken when flush_cards returns Some((suit, cards)):
\* from here on cards are the cards of that suit only.
find_nuts_flush(suit_, cards, board_paired) ==
    LET cards_len == Len(cards)
        scan == straight_scan(cards, FALSE)
        nuts_high_value == scan[1]
        sf_solves == scan[2]
        nuts_high_card == Card(nuts_high_value, suit_)
        high_card_plus ==
            IF cards_len = 3 THEN FindNuts("CardPlusAnySuited", <<nuts_high_card>>)
            ELSE FindNuts("CardPlusAny", <<nuts_high_card>>)
    IN IF Len(sf_solves) = 0
       THEN (IF board_paired THEN quads_full_house(cards) ELSE high_card_plus)
       ELSE IF sf_solves[1].k = "None" THEN FindNuts("AnyTwo", <<>>)
       ELSE IF sf_solves[1].k = "One"
       THEN FindNuts("CardPlusAny", <<Card(sf_solves[1].v[1], suit_)>>)
       ELSE
       LET sf0 == sf_solves[1].v
           sf0_hole == from_values_suited(sf0, suit_)
       IN IF Len(sf_solves) = 1
          THEN (IF board_paired THEN FindNuts("OneHole", <<sf0_hole>>)
                ELSE IF sf0[1] = nuts_high_value THEN high_card_plus
                ELSE FindNuts("ThreeHoles",
                              <<sf0_hole, <<nuts_high_card, sf0_hole[1]>>,
                                <<nuts_high_card, sf0_hole[2]>>>>))
          ELSE IF sf_solves[2].k = "None" THEN FindNuts_unreachable
          ELSE IF sf_solves[2].k = "One"
          THEN FindNuts("CardPlusAny", <<Card(sf_solves[2].v[1], suit_)>>)
          ELSE
          LET sf1 == sf_solves[2].v
              sf1_hole == from_values_suited(sf1, suit_)
              ace == Card(Ace, suit_)
          IN IF sf1[1] # sf0[2]
             THEN (IF board_paired \/ sf0[1] # nuts_high_value
                   THEN FindNuts("OneHole", <<sf0_hole>>)
                   ELSE FindNuts("ThreeHoles",
                                 <<sf0_hole, <<nuts_high_card, sf1_hole[1]>>,
                                   <<nuts_high_card, sf1_hole[2]>>>>))
             ELSE IF board_paired THEN FindNuts("TwoHoles", <<sf0_hole, sf1_hole>>)
             ELSE IF sf0[1] = nuts_high_value
             THEN FindNuts("ThreeHoles",
                           <<sf0_hole, sf1_hole, <<nuts_high_card, sf1_hole[2]>>>>)
             ELSE IF Len(sf_solves) >= 3
             THEN LET last == StraightSolve_last(sf_solves[3])
                  IN IF last # None /\ last[1] = Ace
                     THEN FindNuts("ThreeHoles",
                                   <<sf0_hole, sf1_hole, <<ace, sf1_hole[1]>>>>)
                     ELSE FindNuts("TwoHoles", <<sf0_hole, sf1_hole>>)
             ELSE IF sf1[2] = Ace
             THEN FindNuts("ThreeHoles", <<sf0_hole, sf1_hole, <<ace, sf0_hole[1]>>>>)
             ELSE FindNuts("ThreeHoles",
                           <<sf0_hole, sf1_hole, <<nuts_high_card, sf1_hole[1]>>>>)

\* Board::find_nuts, on the cards of to_vec()
find_nuts(cards) ==
    LET board_paired == paired(cards)
        flush == flush_cards(cards)
    IN IF flush # None
       THEN find_nuts_flush(flush[1][1], flush[1][2], board_paired)
       ELSE IF board_paired THEN quads_full_house(cards)
       ELSE LET straight == straight_scan(cards, TRUE)[2]
            IN IF straight = <<>>
               THEN FindNuts("PocketPair",
                             <<SeqMax({value(cards[i]) : i \in DOMAIN cards})>>)
               ELSE IF straight[1].k = "None" THEN FindNuts("AnyTwo", <<>>)
               ELSE IF straight[1].k = "One"
               THEN FindNuts("OneValue", <<straight[1].v[1]>>)
               ELSE FindNuts("TwoValues", <<straight[1].v>>)

\* Board::is_nuts; "panic" when find_nuts panics.
is_nuts(cards, hole) ==
    LET found == find_nuts(cards)
    IN IF found.kind = "unreachable" THEN "panic" ELSE FindNuts_eq(found, hole)

(***************************************************************************)
(* FullBoard::is_nuts: the boards that no hole can improve                 *)
(***************************************************************************)
\* Mutant of suit_counts_at_most_two: three cards of a suit are let through.
suit_counts_at_most_three(cs) ==
    \A s \in Suits : Cardinality({i \in DOMAIN cs : suit(cs[i]) = s}) <= 3
\* self.0.iter().map(Card::suit).counts().values().all(|&c| c <= 2)
suit_counts_at_most_two(cs) ==
    \A s \in Suits : Cardinality({i \in DOMAIN cs : suit(cs[i]) = s}) <= 2
\* FullBoard::is_nuts
FullBoard_is_nuts(self) ==
    LET v == HandValueFrom(self)
    IN CASE v.cat = "RoyalFlush" -> TRUE
         [] v.cat = "Quads" /\ v.vals = <<Ace, King>> -> TRUE
         [] v.cat = "Quads" /\ v.vals[2] = Ace -> TRUE
         [] v.cat = "Straight" /\ v.vals = <<Ace>> -> suit_counts_at_most_two(self)
         [] OTHER -> FALSE

(***************************************************************************)
(* Board: the community cards by stage                                     *)
(***************************************************************************)
\* enum BoardCards: the stage and its fields; a field the stage does not
\* have is <<>>.
BoardCards(stage, f, t, r) ==
    [stage |-> stage, flop |-> f, turn |-> t, river |-> r]
\* #[default] Preflop, which is also Board::default()
Preflop == BoardCards("Preflop", <<>>, <<>>, <<>>)

\* Board::from_slice
from_slice(cards) ==
    IF cards = <<>> THEN Some(Preflop)
    ELSE IF ~(Len(cards) \in 3 .. 5) THEN None
    ELSE IF ~all_unique(cards) THEN None
    ELSE LET f == SubSeq(cards, 1, 3)
         IN CASE Len(cards) = 3 -> Some(BoardCards("Flop", f, <<>>, <<>>))
              [] Len(cards) = 4 -> Some(BoardCards("Turn", f, cards[4], <<>>))
              [] Len(cards) = 5 ->
                    Some(BoardCards("River", f, cards[4], cards[5]))

\* Board::to_vec
to_vec(self) ==
    CASE self.stage = "Preflop" -> <<>>
      [] self.stage = "Flop" -> self.flop
      [] self.stage = "Turn" -> Append(self.flop, self.turn)
      [] self.stage = "River" -> Append(Append(self.flop, self.turn), self.river)

\* Board::flop
Board_flop(f) == BoardCards("Flop", f, <<>>, <<>>)

\* Mutant of turn: the card is not looked up in the flop.
turn_unchecked(self, card) ==
    IF self.stage = "Flop"
    THEN Some(BoardCards("Turn", self.flop, card, <<>>))
    ELSE None
\* Board::turn
turn(self, card) ==
    IF self.stage = "Flop"
    THEN IF contains_card(self.flop, card)
         THEN None
         ELSE Some(BoardCards("Turn", self.flop, card, <<>>))
    ELSE None

\* Mutant of river: the card is compared with the flop only.
river_flop_only(self, card) ==
    IF self.stage = "Turn"
    THEN IF contains_card(self.flop, card)
         THEN None
         ELSE Some(BoardCards("River", self.flop, self.turn, card))
    ELSE None
\* Mutant of river: the new card takes the place of the turn card.
river_swapped(self, card) ==
    IF self.stage = "Turn"
    THEN IF contains_card(self.flop, card) \/ self.turn = card
         THEN None
         ELSE Some(BoardCards("River", self.flop, card, self.turn))
    ELSE None
\* Board::river
river(self, card) ==
    IF self.stage = "Turn"
    THEN IF contains_card(self.flop, card) \/ self.turn = card
         THEN None
         ELSE Some(BoardCards("River", self.flop, self.turn, card))
    ELSE None

\* Board::as_full_board
as_full_board(self) ==
    IF self.stage = "River"
    THEN Some(<<self.flop[1], self.flop[2], self.flop[3], self.turn,
                self.river>>)
    ELSE None

(***************************************************************************)
(* Parsing: a &str is the sequence of its characters, each a string; the   *)
(* characters of NonAscii take two bytes, every other character one.       *)
(***************************************************************************)
NonAscii == {"U+00E9"}
\* the characters char::is_whitespace accepts, as far as texts here go
White_Space == {" ", "\t", "\n"}

\* str::is_ascii
is_ascii(s) == \A i \in DOMAIN s : s[i] \notin NonAscii
\* str::len: the number of bytes
RECURSIVE str_len(_)
str_len(s) ==
    IF s = <<>> THEN 0
    ELSE (IF Head(s) \in NonAscii THEN 2 ELSE 1) + str_len(Tail(s))
\* str::trim_start and str::trim_end
RECURSIVE trim_start(_)
trim_start(s) ==
    IF s # <<>> /\ Head(s) \in White_Space THEN trim_start(Tail(s)) ELSE s
RECURSIVE trim_end(_)
trim_end(s) ==
    IF s # <<>> /\ s[Len(s)] \in White_Space
    THEN trim_end(SubSeq(s, 1, Len(s) - 1))
    ELSE s
\* Mutant of trim: only the end is trimmed.
trim_end_only(s) == trim_end(s)
\* str::trim
trim(s) == trim_end(trim_start(s))

\* The symbols of impl FromStr for Value and for Suit, in the order of the
\* discriminants. A Result<T, ()> is None for Err(()) and Some(x) for Ok(x).
ValueSymbols == <<"2", "3", "4", "5", "6", "7", "8", "9", "T", "J", "Q", "K", "A">>
SuitSymbols == <<"s", "h", "d", "c">>
\* impl FromStr for Value
Value_from_str(s) ==
    IF \E i \in DOMAIN ValueSymbols : s = <<ValueSymbols[i]>>
    THEN Some((CHOOSE i \in DOMAIN ValueSymbols : s = <<ValueSymbols[i]>>) - 1)
    ELSE None
\* impl FromStr for Suit
Suit_from_str(s) ==
    IF \E i \in DOMAIN SuitSymbols : s = <<SuitSymbols[i]>>
    THEN Some((CHOOSE i \in DOMAIN SuitSymbols : s = <<SuitSymbols[i]>>) - 1)
    ELSE None
\* impl FromStr for Card
Card_from_str(s) ==
    IF str_len(s) # 2 \/ ~is_ascii(s) THEN None
    ELSE LET v == Value_from_str(SubSeq(s, 1, 1))
             su == Suit_from_str(SubSeq(s, 2, 2))
         IN IF v = None THEN None
            ELSE IF su = None THEN None
            ELSE Some(Card(v[1], su[1]))

\* enum ParserResult<(Card, CardsParser)>; card and rest are <<>> unless
\* the kind is "OkSome".
ParserResult(kind, card, rest) == [kind |-> kind, card |-> card, rest |-> rest]
\* CardsParser::card_eaten, on the ASCII text from_str hands to the parser
card_eaten(self) ==
    LET s == trim(self)
    IN IF s = <<>> THEN ParserResult("None", <<>>, <<>>)
       ELSE IF str_len(s) = 1 THEN ParserResult("Err", <<>>, <<>>)
       ELSE LET card == Card_from_str(SubSeq(s, 1, 2))
            IN IF card # None
               THEN ParserResult("OkSome", card[1], SubSeq(s, 3, Len(s)))
               ELSE ParserResult("Err", <<>>, <<>>)
\* CardsParser::eat_card: <<the result, the parser after the call>>
eat_card(self) ==
    LET r == card_eaten(self)
    IN IF r.kind = "OkSome"
       THEN <<ParserResult("OkSome", r.card, <<>>), r.rest>>
       ELSE <<ParserResult(r.kind, <<>>, <<>>), self>>
\* The loop of eat_cards: None, or Some(<<the cards, the parser left>>)
RECURSIVE eat_loop(_, _, _)
eat_loop(parser, n, cards) ==
    IF n = 0 THEN Some(<<cards, parser>>)
    ELSE LET r == card_eaten(parser)
         IN IF r.kind = "OkSome"
            THEN eat_loop(r.rest, n - 1, Append(cards, r.card))
            ELSE None
\* CardsParser::eat_cards::<N>: <<the result, the parser after the call>>
eat_cards(self, n) ==
    LET looped == eat_loop(self, n, <<>>)
    IN IF looped = None THEN <<None, self>>
       ELSE LET cards == new(looped[1][1])
            IN IF cards # None THEN <<cards, looped[1][2]>> ELSE <<None, self>>

\* impl FromStr for CardsCombined<N>
CardsCombined_from_str(s, n) ==
    IF ~is_ascii(s) THEN None
    ELSE LET eaten == eat_cards(s, n)
         IN IF eaten[1] # None
            THEN IF eaten[2] = <<>> THEN eaten[1] ELSE None
            ELSE None

\* impl FromStr for Board
Board_from_str(text) ==
    IF ~is_ascii(text) THEN None
    ELSE LET s == trim(text)
             f == eat_cards(s, 3)
         IN IF s = <<"x">> THEN Some(Preflop)
            ELSE IF f[1] = None THEN None
            ELSE LET b3 == Board_flop(f[1][1])
                     t == eat_card(f[2])
                 IN CASE t[1].kind = "None" -> Some(b3)
                      [] t[1].kind = "Err" -> None
                      [] t[1].kind = "OkSome" ->
                         LET b4 == turn(b3, t[1].card)
                             r == eat_card(t[2])
                         IN IF b4 = None THEN None
                            ELSE CASE r[1].kind = "None" -> b4
                                   [] r[1].kind = "Err" -> None
                                   [] r[1].kind = "OkSome" ->
                                      LET b5 == river(b4[1], r[1].card)
                                      IN IF b5 = None THEN None
                                         ELSE IF r[2] = <<>> THEN b5
                                         ELSE None

(***************************************************************************)
(* Deck and Dealer (src/src/gameplay/headsup.rs)                           *)
(***************************************************************************)
\* The values and the suits of Deck::default, in the order of its arrays
DeckValueArray ==
    <<Deuce, Trey, Four, Five, Six, Seven, Eight, Nine, Ten, Jack, Queen,
      King, Ace>>
DeckSuitArray == <<Spades, Hearts, Diamonds, Clubs>>
\* impl Default for Deck, for the first n values: cards[i * 4 + j] is the
\* card of values[i] and suits[j].
Deck_default(n) ==
    [k \in 1 .. 4 * n |->
        Card(DeckValueArray[((k - 1) \div 4) + 1], DeckSuitArray[((k - 1) % 4) + 1])]
\* Mutant of swap: the second element is written, the first is not.
swap_overwrite(a, i, j) == [a EXCEPT ![i] = a[j]]
\* <[T]>::swap
swap(a, i, j) == [a EXCEPT ![i] = a[j], ![j] = a[i]]
\* Dealer::deal_card: <<the card, the iterator after next()>>
deal_card(iter) == <<Head(iter), Tail(iter)>>
\* Dealer::deal_hole: <<the Hole, the iterator after the two deal_card calls>>
deal_hole(iter) ==
    LET c1 == deal_card(iter)
        c2 == deal_card(c1[2])
    IN <<<<c1[1], c2[1]>>, c2[2]>>
\* Dealer::deal_flop: <<the Flop, the iterator after the three deal_card calls>>
deal_flop(iter) ==
    LET c1 == deal_card(iter)
        c2 == deal_card(c1[2])
        c3 == deal_card(c2[2])
    IN <<<<c1[1], c2[1], c3[1]>>, c3[2]>>

(***************************************************************************)
(* The heads-up session (src/src/gameplay/headsup.rs): Action, BetBound,   *)
(* GameType, GameOver, the state HeadsUp, and the events the Game sends    *)
(* to its Players and its Observer.                                        *)
(***************************************************************************)
\* struct Action(ActionValue); amount is 0 for the variants without one.
Action(kind, amount) == [kind |-> kind, amount |-> amount]
Action_exit == Action("Exit", 0)
Action_fold == Action("Fold", 0)
Action_check_or_call == Action("CheckOrCall", 0)
Action_all_in == Action("AllIn", 0)
\* Action::bet_or_raise
bet_or_raise(amount) ==
    IF amount = 0 \/ amount % 25 # 0 THEN None
    ELSE Some(Action("BetOrRaise", amount))

\* enum BetBound: the variant and its RangeInclusive<u32>, <<>> without one
BetBound(kind, range) == [kind |-> kind, range |-> range]
range_contains(range, x) == range[1] <= x /\ x <= range[2]
\* Mutant of validate_action: a bet or raise is not held against the range.
validate_action_any_amount(self, action) ==
    \/ action.kind \in {"Exit", "Fold"}
    \/ CASE self.kind \in {"FoldCheckAllin", "FoldCallAllin"} ->
                action.kind \in {"CheckOrCall", "AllIn"}
         [] self.kind \in {"FoldCheckBetAllin", "FoldCallRaiseAllin"} ->
                action.kind \in {"BetOrRaise", "CheckOrCall", "AllIn"}
         [] self.kind = "FoldAllin" -> action.kind = "AllIn"
         [] self.kind = "FoldCall" -> action.kind = "CheckOrCall"
         [] self.kind \in {"FoldBetAllin", "FoldRaiseAllin"} ->
                action.kind \in {"BetOrRaise", "AllIn"}
\* BetBound::validate_action
validate_action(self, action) ==
    \/ action.kind \in {"Exit", "Fold"}
    \/ CASE self.kind \in {"FoldCheckAllin", "FoldCallAllin"} ->
                action.kind \in {"CheckOrCall", "AllIn"}
         [] self.kind \in {"FoldCheckBetAllin", "FoldCallRaiseAllin"} ->
                IF action.kind = "BetOrRaise"
                THEN range_contains(self.range, action.amount)
                ELSE action.kind \in {"CheckOrCall", "AllIn"}
         [] self.kind = "FoldAllin" -> action.kind = "AllIn"
         [] self.kind = "FoldCall" -> action.kind = "CheckOrCall"
         [] self.kind \in {"FoldBetAllin", "FoldRaiseAllin"} ->
                IF action.kind = "BetOrRaise"
                THEN range_contains(self.range, action.amount)
                ELSE action.kind = "AllIn"
\* BetBound::alter_eq: None for an invalid action; a bet of the whole range
\* becomes all-in; "unreachable" stands for the unreachable!() arm.
alter_eq(self, action) ==
    IF ~validate_action(self, action) THEN None
    ELSE IF action.kind = "BetOrRaise"
    THEN (IF self.range = <<>> THEN Some("unreachable")
          ELSE IF action.amount = self.range[2] THEN Some(Action_all_in)
          ELSE Some(action))
    ELSE Some(action)

\* enum GameType: Cash { buyin, hands } and SNG(speed)
GameType_Cash(buyin, hands) == [kind |-> "Cash", level |-> buyin, hands |-> hands]
GameType_SNG(speed) == [kind |-> "SNG", level |-> speed, hands |-> 0]
\* GameType::is_sng
is_sng(self) == self.kind = "SNG"
\* GameType::hands_limit
hands_limit(self) ==
    IF self.kind = "Cash" /\ self.hands # 0 THEN Some(self.hands) ELSE None
\* GameType::init_stack
init_stack(self) ==
    IF self.kind = "Cash"
    THEN CASE self.level = "BB15" -> 7500
           [] self.level = "BB30" -> 15000
           [] self.level = "BB50" -> 25000
           [] self.level = "BB75" -> 37500
           [] self.level = "BB100" -> 50000
           [] self.level = "BB150" -> 75000
           [] self.level = "BB200" -> 100000
           [] self.level = "BB250" -> 125000
           [] self.level = "BB300" -> 150000
    ELSE CASE self.level = "Turbo" -> 3000
           [] self.level = "Medium" -> 7500
           [] self.level = "Slow" -> 15000
\* GameType::blind_levels
blind_levels(self) ==
    IF self.kind = "Cash" THEN <<500>>
    ELSE CASE self.level = "Turbo" -> <<50, 100, 150, 200>>
           [] self.level = "Medium" -> <<50, 100, 150, 200, 300, 400, 500>>
           [] self.level = "Slow" ->
                  <<50, 100, 150, 200, 300, 400, 500, 600, 800, 1000>>

\* enum GameOver; player and stacks are <<>> in the variants without them.
GameOver(kind, player, stacks) == [kind |-> kind, player |-> player, stacks |-> stacks]
\* enum ObservableEvent: DealHoles([Option<Hole>; 2]) and GameOver(GameOver)
\* are the events the Game sends.
ObservableEvent(kind, body) == [kind |-> kind, body |-> body]
\* enum InternalEvent: Observable(event), or HeroTurn(bet_bound, sender)
\* with the oneshot channel of the turn named by its number.
InternalEvent_Observable(event) == [kind |-> "Observable", event |-> event]
InternalEvent_HeroTurn(bet_bound, sender) ==
    [kind |-> "HeroTurn", bet_bound |-> bet_bound, sender |-> sender]
\* InternalEvent::take_player: <<PlayerEvent, Option<(BetBound, Sender)>>>
take_player(self) ==
    IF self.kind = "Observable"
    THEN <<[kind |-> "Observable", event |-> self.event], None>>
    ELSE <<[kind |-> "HeroTurn", bet_bound |-> self.bet_bound],
           Some(<<self.bet_bound, self.sender>>)>>

\* HeadsUp::new
HeadsUp_new(game_type, button) ==
    [game_over |-> None,
     is_sng |-> is_sng(game_type),
     hands_limit |-> hands_limit(game_type),
     blind_levels |-> Tail(blind_levels(game_type)),
     cur_blind |-> Head(blind_levels(game_type)),
     cur_turn |-> button,
     button |-> button,
     stacks |-> <<init_stack(game_type), init_stack(game_type)>>,
     pot |-> 0,
     cur_round |-> <<0, 0>>,
     behinds |-> <<init_stack(game_type), init_stack(game_type)>>,
     last_bet |-> 0,
     last_aggressor |-> button,
     opened |-> FALSE,
     holes |-> <<None, None>>,
     board |-> Preflop,
     events |-> <<>>]
\* Mutant of abort: the cash game is not told apart.
abort_plain(self) == GameOver("GameAbort", <<>>, <<>>)
\* HeadsUp::abort
abort(self) ==
    IF self.is_sng THEN GameOver("GameAbort", <<>>, <<>>)
    ELSE GameOver("AbortCheckout", <<>>, self.stacks)
\* Mutant of force_exit: the other player is named.
force_exit_other(self, player) ==
    IF self.is_sng THEN GameOver("ExitAbandon", ~player, <<>>)
    ELSE GameOver("ExitCheckout", ~player, self.stacks)
\* HeadsUp::force_exit
force_exit(self, player) ==
    IF self.is_sng THEN GameOver("ExitAbandon", player, <<>>)
    ELSE GameOver("ExitCheckout", player, self.stacks)
\* HeadsUp::set_game_over
set_game_over(self, game_over) == [self EXCEPT !.game_over = Some(game_over)]
\* HeadsUp::set_holes
set_holes(self, holes) == [self EXCEPT !.holes = <<Some(holes[1]), Some(holes[2])>>]
\* HeadsUp::big_blind
big_blind(self) == self.cur_blind
\* HeadsUp::effective_behind
effective_behind(self) ==
    IF self.behinds[1] < self.behinds[2] THEN self.behinds[1] ELSE self.behinds[2]
\* HeadsUp::bet_bound; the arrays are indexed from 1, hero 0 is index 1.
bet_bound(self) ==
    LET hero == IF self.cur_turn THEN 1 ELSE 2
        behind == self.behinds[hero]
        villain == 3 - hero
        villian_bet == self.cur_round[villain]
        min_raise == villian_bet + (villian_bet - self.last_bet)
    IN IF self.cur_round[1] = 0 /\ self.cur_round[2] = 0
       THEN (IF behind <= big_blind(self) THEN BetBound("FoldCheckAllin", <<>>)
             ELSE BetBound("FoldCheckBetAllin", <<big_blind(self), behind>>))
       ELSE IF behind <= villian_bet THEN BetBound("FoldAllin", <<>>)
       ELSE IF self.behinds[villain] = villian_bet THEN BetBound("FoldCall", <<>>)
       ELSE IF behind <= min_raise THEN BetBound("FoldCallAllin", <<>>)
       ELSE BetBound("FoldCallRaiseAllin", <<min_raise, behind>>)
\* HeadsUp::deal_holes_int: <<Option<()>, the state after>>
\* (the pot is a u32; two stacks of at most 150000 chips never reach 2^32)
deal_holes_int(self) ==
    LET effective_stack == effective_behind(self)
        small_blind == big_blind(self) \div 2
        sb == IF self.button THEN 1 ELSE 2
        bb == 3 - sb
    IN IF effective_stack <= small_blind
       THEN <<None,
              [self EXCEPT !.pot = @ + effective_stack * 2,
                           !.behinds = <<@[1] - effective_stack, @[2] - effective_stack>>]>>
       ELSE <<Some(<<>>),
              [self EXCEPT !.cur_round =
                  [i \in 1 .. 2 |->
                      IF i = sb THEN small_blind
                      ELSE IF big_blind(self) < self.behinds[bb] THEN big_blind(self)
                      ELSE self.behinds[bb]]]>>
\* HeadsUp::deal_holes: <<Option<(cur_turn, BetBound)>, the state after>>
deal_holes(self, holes) ==
    LET dealt == deal_holes_int(set_holes(self, holes))
    IN IF dealt[1] = None THEN <<None, dealt[2]>>
       ELSE <<Some(<<dealt[2].cur_turn, bet_bound(dealt[2])>>), dealt[2]>>
\* HeadsUp::event
HeadsUp_event(self, event) ==
    LET pushed == [self EXCEPT !.events = Append(@, event)]
    IN CASE event.kind = "GameOver" -> set_game_over(pushed, event.body)
         [] event.kind = "DealHoles" ->
                deal_holes_int([pushed EXCEPT !.holes = event.body])[2]
         [] event.kind = "ShowdownAll" -> set_holes(pushed, event.body)
         [] OTHER -> pushed

\* enum Visibility: None, Player(bool), God
Visibility(kind, player) == [kind |-> kind, player |-> player]
\* Player::new
Player_new(game_type, visibility, button) ==
    [state |-> "alive",
     game_type |-> game_type,
     visibility |-> visibility,
     hero_turn |-> None,
     heads_up |-> HeadsUp_new(game_type, button)]
\* The endpoints of the channels: the two Players and the Observer
P0 == 1
P1 == 2
Ob == 3
\* PlayerSender::send on the channel of endpoint e, whose receiver is alive
\* if e is in rx: <<sent, the queues after>>
PlayerSender_send(ch, rx, e, event) ==
    IF e \in rx THEN <<TRUE, [ch EXCEPT ![e] = Append(@, InternalEvent_Observable(event))]>>
    ELSE <<FALSE, ch>>
\* Game::send_ob: <<the Game after, the queues after>>
send_ob(g, ch, rx, event) ==
    IF g.observer # None
    THEN LET sent == PlayerSender_send(ch, rx, Ob, event)
         IN IF ~sent[1] THEN <<[g EXCEPT !.observer = None], ch>>
            ELSE <<g, sent[2]>>
    ELSE <<g, ch>>
\* Game::dispatch_event: <<Option<bool>, the Game after, the queues after>>
dispatch_event(g, ch, rx, event) ==
    LET ob == send_ob(g, ch, rx, event)
        s0 == PlayerSender_send(ob[2], rx, P0, event)
        s1 == PlayerSender_send(s0[2], rx, P1, event)
    IN IF ~s0[1] THEN <<Some(TRUE), ob[1], s0[2]>>
       ELSE IF ~s1[1] THEN <<Some(FALSE), ob[1], s1[2]>>
       ELSE <<None, ob[1], s1[2]>>
\* Game::send_game_over: <<Some(game_over), the Game after, the queues after>>
send_game_over(g, ch, rx, game_over) ==
    LET over == [g EXCEPT !.heads_up = set_game_over(@, game_over)]
        event == ObservableEvent("GameOver", game_over)
        ob == send_ob(over, ch, rx, event)
        s0 == PlayerSender_send(ob[2], rx, P0, event)
        s1 == PlayerSender_send(s0[2], rx, P1, event)
    IN <<Some(game_over), ob[1], s1[2]>>
\* slice::shuffle with the draws of generator r: for i from the last index
\* down to the second, swap(i, random_range(..=i)). Generator 1 draws i at
\* every step; the others draw from the front of the slice in the first
\* four steps and i in the steps after them, which leave the slice as it is.
ShuffleDraw(a, i, r) == IF r = 1 \/ Len(a) - i >= 4 THEN i ELSE Len(a) - i + r - 1
RECURSIVE shuffle(_, _, _)
shuffle(a, i, r) ==
    IF i <= 1 \/ Len(a) - i >= 4 THEN a
    ELSE shuffle(swap(a, i, ShuffleDraw(a, i, r)), i - 1, r)

\* A call on a board, as the caller made it: its name and its cards
Call(op, cards) == [op |-> op, cards |-> cards]
NoCall == Call("none", <<>>)

(***************************************************************************)
(* State                                                                   *)
(***************************************************************************)
VARIABLES
    rpc,     \* ranker: "idle" | "input" | "ranked"
    hand,    \* ranker: the CardsCombined<5> being classified
    hv,      \* ranker: its HandValue, None before the classification
    opc,     \* comparison: "idle" | "first" | "second" | "compare" | "compared"
    v1,      \* comparison: the left HandValue
    v2,      \* comparison: the right HandValue
    ord,     \* comparison: None or Some(Ordering) of v1.cmp(&v2)
    spc,     \* showdown: "idle" | "dealt" | "valued" | "done"
    sboard,  \* showdown: the FullBoard
    sh1,     \* showdown: the first Hole
    sh2,     \* showdown: the second Hole
    sval,    \* showdown: None or Some(hand_value of the board with sh1)
    swin,    \* showdown: None or Some(result of who_wins(sh1, sh2))
    cpc,     \* card sets: "idle" | "arrays" | "first" | "second" | "compared"
             \*            | "hashed"
    arrA,    \* card sets: the first [Card; N]
    arrB,    \* card sets: the second [Card; N]
    setA,    \* card sets: CardsCombined::new(arrA)
    setB,    \* card sets: CardsCombined::new(arrB)
    eq,      \* card sets: None or Some(setA == setB)
    hashA,   \* card sets: None or Some(what setA.hash() writes to the hasher)
    hashB,   \* card sets: None or Some(what setB.hash() writes to the hasher)
    ppc,     \* parallel showdown: "idle" | "join" | "done"
    pboard,  \* parallel showdown: the FullBoard
    pholes,  \* parallel showdown: <<h1, h2>>
    ptask,   \* parallel showdown: per hole, the state of its max() reduction
    pwin,    \* parallel showdown: None or Some(result of who_wins)
    npc,     \* nut finder: "idle" | "board" | "found" | "panicked" | "answered"
    nboard,  \* nut finder: the cards of the Board (to_vec)
    nuts,    \* nut finder: None or Some(the FindNuts of find_nuts)
    nhole,   \* nut finder: the Hole is_nuts was asked about
    nans,    \* nut finder: None or Some(the answer of is_nuts)
    bpc,     \* board: "idle" | "start" | "called" | "ready"
    bboard,  \* board: the Board the calls are made on
    bcall,   \* board: the last call: its name and its card arguments
    btext,   \* board: the text of the last from_str call
    bres,    \* board: None or Some(the Board the last call returned)
    bfull,   \* board: None or Some(the FullBoard of the last as_full_board)
    tpc,     \* parsing: "idle" | "text" | "parsed"
    ttext,   \* parsing: the text given to from_str
    tsize,   \* parsing: the N of the CardsCombined<N> asked for
    tset,    \* parsing: None for Err(()), or Some(the cards of the set)
    fpc,     \* full board: "idle" | "board" | "asked" | "done"
    fboard,  \* full board: the FullBoard
    fans,    \* full board: None or Some(the answer of is_nuts())
    fholes,  \* full board: the two Holes of the showdown, <<h1, h2>>
    fwin,    \* full board: None or Some(the result of who_wins(h1, h2))
    kpc,     \* dealing: "idle" | "fresh" | "shuffling" | "dealing"
    kdeck,   \* dealing: the [Card; 52] of the Deck
    ki,      \* dealing: the index the shuffle has come down to
    kdealer, \* dealing: the Dealer: the cards its iterator has left
    kholes,  \* dealing: the Holes dealt, in the order of the deal_hole calls
    kflop,   \* dealing: None or Some(the Flop of deal_flop)
    kcards,  \* dealing: the cards dealt one by one by deal_card
    gpc,     \* session: "none" | "idle" | "awaiting" (in player_action) | "dropped"
    ggame,   \* session: the Game: game_type, init_button, observer, deck, heads_up
    gret,    \* session: the values run_hand has returned, in order
    gturns,  \* session: the number of oneshot channels made by PlayerSender::turn
    chan,    \* session: the queue of each unbounded channel, by endpoint
    ends,    \* session: the Players and the Observer, by endpoint
    shot,    \* session: the Action sent through each oneshot channel, if any
    gcall    \* session: the last call on a Player, an Observer or the Game, with its result

rankVars == <<rpc, hand, hv>>
orderVars == <<opc, v1, v2, ord>>
sevenVars == <<spc, sboard, sh1, sh2, sval, swin>>
setVars == <<cpc, arrA, arrB, setA, setB, eq, hashA, hashB>>
parVars == <<ppc, pboard, pholes, ptask, pwin>>
nutsVars == <<npc, nboard, nuts, nhole, nans>>
boardVars == <<bpc, bboard, bcall, btext, bres, bfull>>
parseVars == <<tpc, ttext, tsize, tset>>
fullVars == <<fpc, fboard, fans, fholes, fwin>>
dealVars == <<kpc, kdeck, ki, kdealer, kholes, kflop, kcards>>
gameVars == <<gpc, ggame, gret, gturns, chan, ends, shot, gcall>>
vars ==
    <<rpc, hand, hv, opc, v1, v2, ord, spc, sboard, sh1, sh2, sval, swin,
      cpc, arrA, arrB, setA, setB, eq, hashA, hashB,
      ppc, pboard, pholes, ptask, pwin,
      npc, nboard, nuts, nhole, nans,
      bpc, bboard, bcall, btext, bres, bfull,
      tpc, ttext, tsize, tset,
      fpc, fboard, fans, fholes, fwin,
      kpc, kdeck, ki, kdealer, kholes, kflop, kcards,
      gpc, ggame, gret, gturns, chan, ends, shot, gcall>>
\* What the steps of one component leave alone: the other components.
notRank ==
    <<orderVars, sevenVars, setVars, parVars, nutsVars, boardVars,
      parseVars,
      fullVars,
      dealVars,
      gameVars>>
notOrder ==
    <<rankVars, sevenVars, setVars, parVars, nutsVars, boardVars,
      parseVars,
      fullVars,
      dealVars,
      gameVars>>
notSeven ==
    <<rankVars, orderVars, setVars, parVars, nutsVars, boardVars,
      parseVars,
      fullVars,
      dealVars,
      gameVars>>
notSet ==
    <<rankVars, orderVars, sevenVars, parVars, nutsVars, boardVars,
      parseVars,
      fullVars,
      dealVars,
      gameVars>>
notPar ==
    <<rankVars, orderVars, sevenVars, setVars, nutsVars, boardVars,
      parseVars,
      fullVars,
      dealVars,
      gameVars>>
notNuts ==
    <<rankVars, orderVars, sevenVars, setVars, parVars, boardVars,
      parseVars,
      fullVars,
      dealVars,
      gameVars>>
notBoard ==
    <<rankVars, orderVars, sevenVars, setVars, parVars, nutsVars,
      parseVars,
      fullVars,
      dealVars,
      gameVars>>
notParse ==
    <<rankVars, orderVars, sevenVars, setVars, parVars, nutsVars, boardVars,
      fullVars,
      dealVars,
      gameVars>>
notFull ==
    <<rankVars, orderVars, sevenVars, setVars, parVars, nutsVars, boardVars, parseVars,
      dealVars,
      gameVars>>
notDeal ==
    <<rankVars, orderVars, sevenVars, setVars, parVars, nutsVars, boardVars, parseVars, fullVars,
      gameVars>>
notGame ==
    <<rankVars, orderVars, sevenVars, setVars, parVars, nutsVars, boardVars, parseVars, fullVars, dealVars>>

\* The cards of D as a sequence ordered by Card::as_u8.
DeckSeq(D) ==
    LET ids == Reverse(SetDesc({Card_as_u8(c) : c \in D}))
    IN [i \in 1 .. Len(ids) |-> Card(ids[i] \div 4, ids[i] % 4)]

(***************************************************************************)
(* The hand ranker on its own: one 5-card hand is classified.              *)
(***************************************************************************)
\* Bound of the ranker's inputs: the cards of the LowRanks lowest ranks and
\* of the ranks Ten to Ace, in every suit.
LowRanks == 4
RankDeck ==
    {Card(v, s) : v \in {x \in Values : x < Deuce + LowRanks \/ x >= Ten},
                  s \in Suits}
RankDeckSeq == DeckSeq(RankDeck)

RankIdle == rpc = "idle" /\ hand = <<>> /\ hv = None

\* impl Default for SortedHandValue
HandValue_default == HV("RoyalFlush", <<>>)

OrderIdle == opc = "idle" /\ v1 = HandValue_default /\ v2 = HandValue_default /\ ord = None

SevenIdle ==
    /\ spc = "idle" /\ sboard = <<>> /\ sh1 = <<>> /\ sh2 = <<>>
    /\ sval = None /\ swin = None

SetIdle ==
    /\ cpc = "idle" /\ arrA = <<>> /\ arrB = <<>>
    /\ setA = None /\ setB = None /\ eq = None
    /\ hashA = None /\ hashB = None

ParIdle ==
    /\ ppc = "idle" /\ pboard = <<>> /\ pholes = <<>> /\ ptask = <<>>
    /\ pwin = None

NutsIdle ==
    /\ npc = "idle" /\ nboard = <<>> /\ nuts = None /\ nhole = <<>>
    /\ nans = None

BoardIdle ==
    /\ bpc = "idle" /\ bboard = Preflop /\ bcall = NoCall /\ btext = <<>>
    /\ bres = None /\ bfull = None

ParseIdle ==
    tpc = "idle" /\ ttext = <<>> /\ tsize = 0 /\ tset = None

FullIdle ==
    /\ fpc = "idle" /\ fboard = <<>> /\ fans = None /\ fholes = <<>>
    /\ fwin = None

DealIdle ==
    /\ kpc = "idle" /\ kdeck = <<>> /\ ki = 0 /\ kdealer = <<>>
    /\ kholes = <<>> /\ kflop = None /\ kcards = <<>>

GameIdle ==
    /\ gpc = "none" /\ ggame = <<>> /\ gret = <<>> /\ gturns = 0
    /\ chan = <<>> /\ ends = <<>> /\ shot = <<>> /\ gcall = <<>>

RankInit ==
    /\ GameIdle
    /\ DealIdle
    /\ FullIdle
    /\ ParseIdle
    /\ BoardIdle
    /\ NutsIdle
    /\ ParIdle
    /\ OrderIdle
    /\ SevenIdle
    /\ SetIdle
    /\ rpc = "input"
    /\ hv = None
    /\ \E a \in 1 .. Len(RankDeckSeq) :
       \E b \in (a + 1) .. Len(RankDeckSeq) :
       \E c \in (b + 1) .. Len(RankDeckSeq) :
       \E d \in (c + 1) .. Len(RankDeckSeq) :
       \E e \in (d + 1) .. Len(RankDeckSeq) :
          hand = <<RankDeckSeq[a], RankDeckSeq[b], RankDeckSeq[c],
                   RankDeckSeq[d], RankDeckSeq[e]>>

\* HandValue::from(hand)
Rank ==
    /\ rpc = "input"
    /\ hv' = HandValueFrom(hand)
    /\ rpc' = "ranked"
    /\ UNCHANGED <<hand, notRank>>

RankNext == Rank
SpecRank == RankInit /\ [][RankNext]_vars

(***************************************************************************)
(* The order on HandValue: two hands are classified and compared.          *)
(***************************************************************************)
\* Bound of the comparison's inputs: the OrderSpades highest spades, and the
\* Aces and Kings of every suit.
OrderSpades == 6
OrderDeck ==
    {Card(v, Spades) : v \in {x \in Values : x > Ace - OrderSpades}}
        \cup {Card(v, s) : v \in {King, Ace}, s \in Suits}
OrderDeckSeq == DeckSeq(OrderDeck)
OrderHands == Range(array_combinations(OrderDeckSeq, 5))

OrderInit ==
    /\ GameIdle
    /\ DealIdle
    /\ FullIdle
    /\ ParseIdle
    /\ BoardIdle
    /\ NutsIdle
    /\ ParIdle
    /\ RankIdle
    /\ SevenIdle
    /\ SetIdle
    /\ opc = "first"
    /\ v1 = HandValue_default
    /\ v2 = HandValue_default
    /\ ord = None

\* let v1 = HandValue::from(h)
EvalFirst ==
    /\ opc = "first"
    /\ \E h \in OrderHands : v1' = HandValueFrom(h)
    /\ opc' = "second"
    /\ UNCHANGED <<v2, ord, notOrder>>

\* let v2 = HandValue::from(h)
EvalSecond ==
    /\ opc = "second"
    /\ \E h \in OrderHands : v2' = HandValueFrom(h)
    /\ opc' = "compare"
    /\ UNCHANGED <<v1, ord, notOrder>>

\* v1.cmp(&v2)
Compare ==
    /\ opc = "compare"
    /\ ord' = Some(cmp(v1, v2))
    /\ opc' = "compared"
    /\ UNCHANGED <<v1, v2, notOrder>>

OrderNext == EvalFirst \/ EvalSecond \/ Compare
SpecOrder == OrderInit /\ [][OrderNext]_vars

(***************************************************************************)
(* The showdown: a full board and two holes are evaluated and compared.    *)
(***************************************************************************)
\* Bound of the showdown's inputs: the board is dealt from the SevenSpades
\* highest spades below the Ace, the Aces of hearts and diamonds and the King
\* of hearts; the holes from five other cards.
SevenSpades == 4
BoardDeck ==
    {Card(v, Spades) : v \in {x \in Values : x < Ace /\ x >= Ace - SevenSpades}}
        \cup {Card(Ace, Hearts), Card(Ace, Diamonds), Card(King, Hearts)}
HoleDeck ==
    {Card(Ace, Spades), Card(Ace, Clubs), Card(King, Clubs), Card(King, Diamonds),
     Card(Deuce, Spades)}
BoardDeckSeq == DeckSeq(BoardDeck)
HoleDeckSeq == DeckSeq(HoleDeck)
\* The cards of the sequence d that are not in the array a, in d's order.
Without(d, a) == SelectSeq(d, LAMBDA c : c \notin Range(a))

SevenInit ==
    /\ GameIdle
    /\ DealIdle
    /\ FullIdle
    /\ ParseIdle
    /\ BoardIdle
    /\ NutsIdle
    /\ ParIdle
    /\ RankIdle
    /\ OrderIdle
    /\ SetIdle
    /\ spc = "dealt"
    /\ sval = None
    /\ swin = None
    /\ sboard \in Range(array_combinations(BoardDeckSeq, 5))
    /\ sh1 \in Range(array_combinations(HoleDeckSeq, 2))
    /\ sh2 \in Range(array_combinations(Without(HoleDeckSeq, sh1), 2))

\* sboard.hand_value(sh1)
CallHandValue ==
    /\ spc = "dealt"
    /\ sval' = Some(FullBoard_hand_value(sboard, sh1))
    /\ spc' = "valued"
    /\ UNCHANGED <<sboard, sh1, sh2, swin, notSeven>>

\* sboard.who_wins(sh1, sh2)
CallWhoWins ==
    /\ spc = "valued"
    /\ swin' = Some(who_wins(sboard, sh1, sh2))
    /\ spc' = "done"
    /\ UNCHANGED <<sboard, sh1, sh2, sval, notSeven>>

SevenNext == CallHandValue \/ CallWhoWins
SpecSeven == SevenInit /\ [][SevenNext]_vars

(***************************************************************************)
(* Card sets: two arrays are validated and the sets compared.              *)
(***************************************************************************)
\* Bound of the card sets' inputs: the first SetCards cards of SetDeckSeq
\* (not in as_u8 order), in arrays of the sizes SetSizes.
SetCards == 4
SetDeckSeq ==
    SubSeq(<<Card(King, Hearts), Card(Deuce, Clubs), Card(Ace, Spades),
             Card(Deuce, Spades), Card(King, Diamonds), Card(Five, Clubs)>>,
           1, SetCards)
SetSizes == {2, 3}

SetInit ==
    /\ GameIdle
    /\ DealIdle
    /\ FullIdle
    /\ ParseIdle
    /\ BoardIdle
    /\ NutsIdle
    /\ ParIdle
    /\ RankIdle
    /\ OrderIdle
    /\ SevenIdle
    /\ cpc = "arrays"
    /\ \E n \in SetSizes :
          /\ arrA \in [1 .. n -> Range(SetDeckSeq)]
          /\ arrB \in [1 .. n -> Range(SetDeckSeq)]
    /\ setA = None
    /\ setB = None
    /\ eq = None
    /\ hashA = None
    /\ hashB = None

\* let a = CardsCombined::new(arrA)
NewFirst ==
    /\ cpc = "arrays"
    /\ setA' = new(arrA)
    /\ cpc' = "first"
    /\ UNCHANGED <<arrA, arrB, setB, eq, hashA, hashB, notSet>>

\* let b = CardsCombined::new(arrB)
NewSecond ==
    /\ cpc = "first"
    /\ setB' = new(arrB)
    /\ cpc' = "second"
    /\ UNCHANGED <<arrA, arrB, setA, eq, hashA, hashB, notSet>>

\* a == b, for two sets that were constructed
CompareSets ==
    /\ cpc = "second"
    /\ setA # None
    /\ setB # None
    /\ eq' = Some(CardsCombined_eq(setA[1], setB[1]))
    /\ cpc' = "compared"
    /\ UNCHANGED <<arrA, arrB, setA, setB, hashA, hashB, notSet>>

\* a.hash(&mut state) and b.hash(&mut state), each on a fresh hasher
HashSets ==
    /\ cpc = "compared"
    /\ hashA' = Some(CardsCombined_hash(setA[1]))
    /\ hashB' = Some(CardsCombined_hash(setB[1]))
    /\ cpc' = "hashed"
    /\ UNCHANGED <<arrA, arrB, setA, setB, eq, notSet>>

SetNext == NewFirst \/ NewSecond \/ CompareSets \/ HashSets
SpecSet == SetInit /\ [][SetNext]_vars

(***************************************************************************)
(* The showdown on the thread pool: rayon::join of two hand_value calls,   *)
(* each a par_iter().map().max() over its 21 five-card arrays.             *)
(***************************************************************************)
\* Mutant of reduce_op: the right operand is kept.
reduce_op_right(l, r) == r
\* The operation max() hands to reduce_with: Ord::max on two partial results.
reduce_op(l, r) == ord_max(l, r)

\* Bound of the reduction: the number of times the slice of one hand_value
\* call is split in two (what the pool's thread count and steals decide).
ParSplits == 2
\* Bound of the inputs: ParBoards boards, every fifth one of the boards
\* dealt from the board deck.
ParBoards == 4
ParBoardSeq ==
    LET boards == array_combinations(BoardDeckSeq, 5)
    IN [k \in 1 .. ParBoards |-> boards[((5 * k) % Len(boards)) + 1]]
ParHoles ==
    {<<<<Card(Ace, Spades), Card(Deuce, Spades)>>, <<Card(Ace, Clubs), Card(King, Clubs)>>>>,
     <<<<Card(Ace, Clubs), Card(King, Diamonds)>>, <<Card(Ace, Spades), Card(King, Clubs)>>>>}

\* One piece of a slice under reduction: id is the path of halves taken from
\* the whole slice (0 left, 1 right), lo..hi its items, val its result once
\* it has been folded.
Piece(id, lo, hi, val) == [id |-> id, lo |-> lo, hi |-> hi, val |-> val]
\* A reduction that has just collected its 21 arrays.
Collected == [pieces |-> <<Piece(<<>>, 1, 21, None)>>, splits |-> 0]
\* The mapped items of every hand_value call of the inputs, by board and hole.
ParMapped ==
    [b \in Range(ParBoardSeq) |->
        [h \in {hs[t] : hs \in ParHoles, t \in {1, 2}} |->
            map_from(five_card_arrays(to_seven(b, h)))]]
ParItems(t) == ParMapped[pboard][pholes[t]]
Replace(seq, i, n, by) == SubSeq(seq, 1, i - 1) \o by \o SubSeq(seq, i + n, Len(seq))
Siblings(a, b) ==
    /\ Len(a.id) >= 1
    /\ Len(a.id) = Len(b.id)
    /\ SubSeq(a.id, 1, Len(a.id) - 1) = SubSeq(b.id, 1, Len(b.id) - 1)
    /\ a.id[Len(a.id)] = 0
    /\ b.id[Len(b.id)] = 1
TaskDone(t) == Len(ptask[t].pieces) = 1 /\ ptask[t].pieces[1].val # None

ParInit ==
    /\ GameIdle
    /\ DealIdle
    /\ FullIdle
    /\ ParseIdle
    /\ BoardIdle
    /\ NutsIdle
    /\ RankIdle
    /\ OrderIdle
    /\ SevenIdle
    /\ SetIdle
    /\ ppc = "join"
    /\ pboard \in Range(ParBoardSeq)
    /\ pholes \in ParHoles
    /\ ptask = <<Collected, Collected>>
    /\ pwin = None

\* A piece nobody has taken yet can be split while it has two items or more
\* (and the bound allows), or folded.
Untaken(t, i) == ptask[t].pieces[i].val = None
CanSplit(t, i) ==
    /\ ppc = "join"
    /\ ptask[t].splits < ParSplits
    /\ Untaken(t, i)
    /\ (ptask[t].pieces[i].hi - ptask[t].pieces[i].lo + 1) \div 2 >= 1
CanFold(t, i) == ppc = "join" /\ Untaken(t, i)
\* Two halves of one piece can be reduced once both have their result.
CanCombine(t, i) ==
    /\ ppc = "join"
    /\ i + 1 \in DOMAIN ptask[t].pieces
    /\ ptask[t].pieces[i].val # None
    /\ ptask[t].pieces[i + 1].val # None
    /\ Siblings(ptask[t].pieces[i], ptask[t].pieces[i + 1])
\* rayon::join returns when both closures have returned.
CanMatch == ppc = "join" /\ TaskDone(1) /\ TaskDone(2)

\* A worker takes a piece and splits it at len / 2 into two pieces.
Split(t) ==
    /\ \E i \in DOMAIN ptask[t].pieces :
          LET p == ptask[t].pieces[i]
              mid == (p.hi - p.lo + 1) \div 2
          IN /\ CanSplit(t, i)
             /\ ptask' = [ptask EXCEPT ![t] =
                   [pieces |-> Replace(@.pieces, i, 1,
                                  <<Piece(p.id \o <<0>>, p.lo, p.lo + mid - 1, None),
                                    Piece(p.id \o <<1>>, p.lo + mid, p.hi, None)>>),
                    splits |-> @.splits + 1]]
    /\ UNCHANGED <<ppc, pboard, pholes, pwin, notPar>>

\* A worker takes a piece and folds it: map(From::from) and max, in order.
Fold(t) ==
    /\ \E i \in DOMAIN ptask[t].pieces :
          LET p == ptask[t].pieces[i]
          IN /\ CanFold(t, i)
             /\ ptask' = [ptask EXCEPT ![t].pieces[i].val =
                             fold_max(None, SubSeq(ParItems(t), p.lo, p.hi))]
    /\ UNCHANGED <<ppc, pboard, pholes, pwin, notPar>>

\* The worker that split a piece reduces the results of its two halves.
Combine(t) ==
    /\ \E i \in DOMAIN ptask[t].pieces :
          /\ CanCombine(t, i)
          /\ LET l == ptask[t].pieces[i]
                 r == ptask[t].pieces[i + 1]
             IN ptask' = [ptask EXCEPT ![t].pieces =
                   Replace(@, i, 2,
                       <<Piece(SubSeq(l.id, 1, Len(l.id) - 1), l.lo, r.hi,
                               Some(reduce_op(l.val[1], r.val[1])))>>)]
    /\ UNCHANGED <<ppc, pboard, pholes, pwin, notPar>>

\* rayon::join has returned both values: the match of who_wins.
Match ==
    /\ CanMatch
    /\ pwin' = Some(who_wins_match(ptask[1].pieces[1].val[1], ptask[2].pieces[1].val[1]))
    /\ ppc' = "done"
    /\ UNCHANGED <<pboard, pholes, ptask, notPar>>

ParNext == (\E t \in {1, 2} : Split(t) \/ Fold(t) \/ Combine(t)) \/ Match
SpecPar == ParInit /\ [][ParNext]_vars

(***************************************************************************)
(* The nut finder: find_nuts on a board, then is_nuts for a hole.          *)
(***************************************************************************)
\* Bounds of the nut finder's inputs: the boards are the 5-, 4- and 3-card
\* boards dealt from the first NutsCards cards of one list, the holes the
\* pairs from the first NutsHoleCards cards of another; to both come the
\* boards and the holes of the scenarios.
NutsCards == 7
NutsHoleCards == 5
NutsDeckSeq ==
    SubSeq(<<Card(Eight, Spades), Card(Nine, Hearts), Card(Nine, Diamonds),
             Card(Jack, Spades), Card(Queen, Spades), Card(King, Spades),
             Card(Eight, Hearts), Card(Trey, Spades), Card(Ace, Diamonds)>>,
           1, NutsCards)
NutsHoleSeq ==
    SubSeq(<<Card(Nine, Spades), Card(Nine, Clubs), Card(Ten, Spades),
             Card(Ace, Spades), Card(Ace, Hearts), Card(King, Clubs),
             Card(Deuce, Diamonds)>>,
           1, NutsHoleCards)
\* The boards and the holes of the scenarios the specification names
NutsScenarios ==
    <<<<Card(Ace, Spades), Card(King, Spades), Card(Queen, Spades)>>,
      <<Card(Deuce, Hearts), Card(Deuce, Diamonds), Card(Deuce, Clubs)>>>>
NutsScenarioHoles ==
    <<<<Card(Jack, Spades), Card(Ten, Spades)>>,
      <<Card(Jack, Spades), Card(Deuce, Spades)>>,
      <<Card(Jack, Spades), Card(Nine, Clubs)>>,
      <<Card(Ace, Clubs), Card(Ace, Diamonds)>>,
      <<Card(Ace, Clubs), Card(Deuce, Spades)>>,
      <<Card(Ace, Clubs), Card(Nine, Hearts)>>,
      <<Card(Nine, Hearts), Card(Four, Hearts)>>,
      <<Card(Six, Hearts), Card(Jack, Hearts)>>,
      <<Card(King, Clubs), Card(Deuce, Spades)>>,
      <<Card(Ten, Hearts), Card(Ace, Hearts)>>>>
NutsBoards ==
    array_combinations(NutsDeckSeq, 5) \o array_combinations(NutsDeckSeq, 4)
        \o array_combinations(NutsDeckSeq, 3) \o NutsScenarios
NutsHoles == array_combinations(NutsHoleSeq, 2) \o NutsScenarioHoles

NutsInit ==
    /\ GameIdle
    /\ DealIdle
    /\ FullIdle
    /\ ParseIdle
    /\ BoardIdle
    /\ RankIdle
    /\ OrderIdle
    /\ SevenIdle
    /\ SetIdle
    /\ ParIdle
    /\ npc = "board"
    /\ \E i \in DOMAIN NutsBoards : nboard = NutsBoards[i]
    /\ nuts = None
    /\ nhole = <<>>
    /\ nans = None

\* board.find_nuts(): the descriptor, or the panic of an unreachable!() arm
CallFindNuts ==
    /\ npc = "board"
    /\ LET found == find_nuts(nboard)
       IN IF found.kind = "unreachable"
          THEN nuts' = None /\ npc' = "panicked"
          ELSE nuts' = Some(found) /\ npc' = "found"
    /\ UNCHANGED <<nboard, nhole, nans, notNuts>>

\* board.is_nuts(hole), for a hole off the board
CallIsNuts ==
    /\ npc = "found"
    /\ \E i \in DOMAIN NutsHoles :
          /\ Range(NutsHoles[i]) \cap Range(nboard) = {}
          /\ nhole' = NutsHoles[i]
          /\ nans' = Some(is_nuts(nboard, NutsHoles[i]))
    /\ npc' = "answered"
    /\ UNCHANGED <<nboard, nuts, notNuts>>

NutsNext == CallFindNuts \/ CallIsNuts
SpecNuts == NutsInit /\ [][NutsNext]_vars

(***************************************************************************)
(* The board: one constructor, then turn, river and as_full_board calls.   *)
(***************************************************************************)
\* Bound of the board's inputs: the first StageCards cards of StageDeckSeq.
StageCards == 5
StageDeckSeq ==
    SubSeq(<<Card(Ace, Spades), Card(King, Hearts), Card(Queen, Diamonds),
             Card(Deuce, Clubs), Card(Ten, Spades), Card(Nine, Spades),
             Card(Deuce, Hearts)>>,
           1, StageCards)
\* The lengths of the lists given to from_slice: up to one more than the
\* five cards of the largest board.
SliceLens == 0 .. 6

\* The texts given to Board::from_str: the cards of a list as 2-character
\* tokens, joined by one of TextSeps and followed by one of TextTails, and
\* the texts of TextOthers.
TextSeps == {<<>>, <<" ">>}
TextTails == {<<>>, <<" ">>, <<"A">>}
TextOthers == {<<"x">>, <<" ", "x", "\n">>, <<"x", "x">>, <<"U+00E9">>}
TextLens == 0 .. 5
Card_text(c) == <<ValueSymbols[value(c) + 1], SuitSymbols[suit(c) + 1]>>
RECURSIVE Join(_, _)
Join(cards, sep) ==
    IF cards = <<>> THEN <<>>
    ELSE IF Len(cards) = 1 THEN Card_text(cards[1])
    ELSE Card_text(Head(cards)) \o sep \o Join(Tail(cards), sep)

BoardInit ==
    /\ GameIdle
    /\ DealIdle
    /\ FullIdle
    /\ ParseIdle
    /\ RankIdle
    /\ OrderIdle
    /\ SevenIdle
    /\ SetIdle
    /\ ParIdle
    /\ NutsIdle
    /\ bpc = "start"
    /\ bboard = Preflop
    /\ bcall = NoCall
    /\ btext = <<>>
    /\ bres = None
    /\ bfull = None

\* The constructors are associated functions: they do not read a board, so
\* a behaviour calls one of them first.
\* Board::default()
CallDefault ==
    /\ bpc = "start"
    /\ bres' = Some(Preflop)
    /\ bcall' = Call("default", <<>>)
    /\ bpc' = "called"
    /\ UNCHANGED <<bboard, btext, bfull, notBoard>>

\* Board::from_slice(&cards)
CallFromSlice ==
    /\ bpc = "start"
    /\ \E n \in SliceLens :
       \E cards \in [1 .. n -> Range(StageDeckSeq)] :
          /\ bres' = from_slice(cards)
          /\ bcall' = Call("from_slice", cards)
    /\ bpc' = "called"
    /\ UNCHANGED <<bboard, btext, bfull, notBoard>>

\* text.parse::<Board>()
CallFromStr ==
    /\ bpc = "start"
    /\ \/ \E n \in TextLens :
          \E cards \in [1 .. n -> Range(StageDeckSeq)] :
          \E sep \in TextSeps :
          \E tail \in TextTails :
             btext' = Join(cards, sep) \o tail
       \/ btext' \in TextOthers
    /\ bres' = Board_from_str(btext')
    /\ bcall' = Call("from_str", <<>>)
    /\ bpc' = "called"
    /\ UNCHANGED <<bboard, bfull, notBoard>>

\* Board::flop(flop), for a Flop that CardsCombined::new validated
CallFlop ==
    /\ bpc = "start"
    /\ \E cards \in [1 .. 3 -> Range(StageDeckSeq)] :
          /\ new(cards) # None
          /\ bres' = Some(Board_flop(new(cards)[1]))
          /\ bcall' = Call("flop", cards)
    /\ bpc' = "called"
    /\ UNCHANGED <<bboard, btext, bfull, notBoard>>

\* board.turn(card): &self, so the board is left as it is
CallTurn ==
    /\ bpc \in {"start", "ready"}
    /\ \E c \in Range(StageDeckSeq) :
          /\ bres' = turn(bboard, c)
          /\ bcall' = Call("turn", <<c>>)
    /\ bpc' = "called"
    /\ bfull' = None
    /\ UNCHANGED <<bboard, btext, notBoard>>

\* board.river(card): &self, so the board is left as it is
CallRiver ==
    /\ bpc \in {"start", "ready"}
    /\ \E c \in Range(StageDeckSeq) :
          /\ bres' = river(bboard, c)
          /\ bcall' = Call("river", <<c>>)
    /\ bpc' = "called"
    /\ bfull' = None
    /\ UNCHANGED <<bboard, btext, notBoard>>

\* board.as_full_board()
CallAsFullBoard ==
    /\ bpc \in {"start", "ready"}
    /\ bfull' = as_full_board(bboard)
    /\ bcall' = Call("as_full_board", <<>>)
    /\ bres' = None
    /\ bpc' = "called"
    /\ UNCHANGED <<bboard, btext, notBoard>>

\* let board = <the Some(board) the last call returned>
Take ==
    /\ bpc = "called"
    /\ bres # None
    /\ bboard' = bres[1]
    /\ bcall' = NoCall
    /\ btext' = <<>>
    /\ bres' = None
    /\ bfull' = None
    /\ bpc' = "ready"
    /\ UNCHANGED notBoard

\* The caller lets the result of the last call go and keeps its board.
Drop ==
    /\ bpc = "called"
    /\ bcall' = NoCall
    /\ btext' = <<>>
    /\ bres' = None
    /\ bfull' = None
    /\ bpc' = "ready"
    /\ UNCHANGED <<bboard, notBoard>>

BoardNext ==
    \/ CallDefault
    \/ CallFromSlice
    \/ CallFromStr
    \/ CallFlop
    \/ CallTurn
    \/ CallRiver
    \/ CallAsFullBoard
    \/ Take
    \/ Drop
SpecBoard == BoardInit /\ [][BoardNext]_vars

(***************************************************************************)
(* Parsing a card set: text.parse::<CardsCombined<N>>()                    *)
(***************************************************************************)
\* Bound of the parser's inputs: the texts of at most TextMax characters of
\* ParseChars, parsed as sets of the sizes ParseSizes.
TextMax == 5
ParseChars == {"A", "a", "s", "h", " ", "U+00E9"}
ParseSizes == {1, 2}

ParseInit ==
    /\ GameIdle
    /\ DealIdle
    /\ FullIdle
    /\ RankIdle
    /\ OrderIdle
    /\ SevenIdle
    /\ SetIdle
    /\ ParIdle
    /\ NutsIdle
    /\ BoardIdle
    /\ tpc = "text"
    /\ \E n \in 0 .. TextMax : ttext \in [1 .. n -> ParseChars]
    /\ tsize \in ParseSizes
    /\ tset = None

\* CardsCombined::<N>::from_str(text)
CallParse ==
    /\ tpc = "text"
    /\ tset' = CardsCombined_from_str(ttext, tsize)
    /\ tpc' = "parsed"
    /\ UNCHANGED <<ttext, tsize, notParse>>

ParseNext == CallParse
SpecParse == ParseInit /\ [][ParseNext]_vars

(***************************************************************************)
(* A full board: is_nuts(), then a showdown of two holes on it.            *)
(***************************************************************************)
\* Bound of the full board's inputs: the boards are dealt from the cards
\* Ten to Ace of FullStraightSeq or from the Aces and Kings of FullQuadsSeq,
\* the holes from the first FullHoleCards cards of FullHoleSeq.
FullHoleCards == 4
FullStraightSeq ==
    <<Card(Ten, Spades), Card(Jack, Spades), Card(Queen, Spades),
      Card(King, Spades), Card(Ace, Spades), Card(Queen, Hearts),
      Card(King, Diamonds), Card(Ace, Clubs)>>
FullQuadsSeq ==
    <<Card(Ace, Spades), Card(Ace, Hearts), Card(Ace, Diamonds),
      Card(Ace, Clubs), Card(King, Spades), Card(King, Hearts),
      Card(King, Diamonds), Card(King, Clubs)>>
FullHoleSeq ==
    SubSeq(<<Card(Nine, Spades), Card(Eight, Spades), Card(Queen, Diamonds),
             Card(Deuce, Clubs), Card(Nine, Hearts), Card(Jack, Hearts)>>,
           1, FullHoleCards)
FullBoards ==
    array_combinations(FullStraightSeq, 5) \o array_combinations(FullQuadsSeq, 5)
FullHoles == array_combinations(FullHoleSeq, 2)

FullInit ==
    /\ GameIdle
    /\ DealIdle
    /\ RankIdle
    /\ OrderIdle
    /\ SevenIdle
    /\ SetIdle
    /\ ParIdle
    /\ NutsIdle
    /\ BoardIdle
    /\ ParseIdle
    /\ fpc = "board"
    /\ \E i \in DOMAIN FullBoards : fboard = FullBoards[i]
    /\ fans = None
    /\ fholes = <<>>
    /\ fwin = None

\* board.is_nuts()
CallFullIsNuts ==
    /\ fpc = "board"
    /\ fans' = Some(FullBoard_is_nuts(fboard))
    /\ fpc' = "asked"
    /\ UNCHANGED <<fboard, fholes, fwin, notFull>>

\* board.who_wins(h1, h2), for two holes off the board that share no card
CallFullWhoWins ==
    /\ fpc = "asked"
    /\ \E i, j \in DOMAIN FullHoles :
          /\ i < j
          /\ Range(FullHoles[i]) \cap Range(FullHoles[j]) = {}
          /\ fholes' = <<FullHoles[i], FullHoles[j]>>
          /\ fwin' = Some(who_wins(fboard, FullHoles[i], FullHoles[j]))
    /\ fpc' = "done"
    /\ UNCHANGED <<fboard, fans, notFull>>

FullNext == CallFullIsNuts \/ CallFullWhoWins
SpecFull == FullInit /\ [][FullNext]_vars

(***************************************************************************)
(* The dealer: a Deck is shuffled, then the holes, the flop and the turn   *)
(* card are dealt from it.                                                 *)
(***************************************************************************)
\* Bounds of the dealer: the Deck holds the cards of the first DeckValues
\* values, and each draw of the shuffle's generator is one of RngChoices
\* indices at most.
DeckValues == 2
RngChoices == 2
\* Deck::default() within the bound
DealDeck == Deck_default(DeckValues)
\* The indices random_range(..=i) may return at index i (counted from 1)
RngDraws(i) == {i} \cup ((1 .. (RngChoices - 1)) \cap (1 .. i))

DealInit ==
    /\ GameIdle
    /\ RankIdle
    /\ OrderIdle
    /\ SevenIdle
    /\ SetIdle
    /\ ParIdle
    /\ NutsIdle
    /\ BoardIdle
    /\ ParseIdle
    /\ FullIdle
    /\ kpc = "fresh"
    /\ kdeck = DealDeck
    /\ ki = 0
    /\ kdealer = <<>>
    /\ kholes = <<>>
    /\ kflop = None
    /\ kcards = <<>>

\* deck.shuffle_and_deal() is entered: the shuffle starts at the last index
ShuffleStart ==
    /\ kpc = "fresh"
    /\ kpc' = "shuffling"
    /\ ki' = Len(kdeck)
    /\ UNCHANGED <<kdeck, kdealer, kholes, kflop, kcards, notDeal>>

\* One round of self.0.shuffle(&mut rng): swap(i, rng.random_range(..=i))
ShuffleStep ==
    /\ kpc = "shuffling"
    /\ ki > 1
    /\ \E j \in RngDraws(ki) : kdeck' = swap(kdeck, ki, j)
    /\ ki' = ki - 1
    /\ UNCHANGED <<kpc, kdealer, kholes, kflop, kcards, notDeal>>

\* Dealer(self.0.into_iter()): the iterator owns a copy of the array
MakeDealer ==
    /\ kpc = "shuffling"
    /\ ki = 1
    /\ kdealer' = kdeck
    /\ kpc' = "dealing"
    /\ UNCHANGED <<kdeck, ki, kholes, kflop, kcards, notDeal>>

\* dealer.deal_hole(), for each of the two players
DealHole ==
    /\ kpc = "dealing"
    /\ Len(kholes) < 2
    /\ kholes' = Append(kholes, deal_hole(kdealer)[1])
    /\ kdealer' = deal_hole(kdealer)[2]
    /\ UNCHANGED <<kpc, kdeck, ki, kflop, kcards, notDeal>>

\* dealer.deal_flop(), after the holes
DealFlop ==
    /\ kpc = "dealing"
    /\ Len(kholes) = 2
    /\ kflop = None
    /\ kflop' = Some(deal_flop(kdealer)[1])
    /\ kdealer' = deal_flop(kdealer)[2]
    /\ UNCHANGED <<kpc, kdeck, ki, kholes, kcards, notDeal>>

\* dealer.deal_card() for the turn and for the river, after the flop; the
\* game asks for a card only while the iterator has one left
DealCard ==
    /\ kpc = "dealing"
    /\ kflop # None
    /\ Len(kcards) < 2
    /\ kdealer # <<>>
    /\ kcards' = Append(kcards, deal_card(kdealer)[1])
    /\ kdealer' = deal_card(kdealer)[2]
    /\ UNCHANGED <<kpc, kdeck, ki, kholes, kflop, notDeal>>

DealNext ==
    \/ ShuffleStart
    \/ ShuffleStep
    \/ MakeDealer
    \/ DealHole
    \/ DealFlop
    \/ DealCard
SpecDeal == DealInit /\ [][DealNext]_vars

(***************************************************************************)
(* The nut finder by board texture: find_nuts and is_nuts on rainbow       *)
(* boards, on boards with a flush suit and on paired boards.               *)
(***************************************************************************)
\* Bounds of the textured boards: the 3-, 4- and 5-card boards from the
\* first RainbowCards cards of a list with two cards a suit, from the first
\* FlushCards cards of a list of hearts and from the first PairedCards
\* cards of a list with the four Nines.
RainbowCards == 9
FlushCards == 8
PairedCards == 7
RainbowSeq ==
    SubSeq(<<Card(Deuce, Clubs), Card(Seven, Diamonds), Card(Nine, Hearts),
             Card(Ten, Spades), Card(Jack, Diamonds), Card(Queen, Hearts),
             Card(King, Clubs), Card(Ace, Spades), Card(Five, Spades),
             Card(Trey, Diamonds)>>,
           1, RainbowCards)
FlushSeq ==
    SubSeq(<<Card(Five, Hearts), Card(Seven, Hearts), Card(Eight, Hearts),
             Card(Nine, Hearts), Card(Six, Hearts), Card(Queen, Hearts),
             Card(Deuce, Hearts), Card(Ace, Clubs), Card(Deuce, Clubs)>>,
           1, FlushCards)
PairedSeq ==
    SubSeq(<<Card(Nine, Spades), Card(Nine, Hearts), Card(Nine, Diamonds),
             Card(Nine, Clubs), Card(King, Diamonds), Card(Five, Clubs),
             Card(Ace, Hearts), Card(Five, Diamonds)>>,
           1, PairedCards)
\* The boards showing four Aces
AceQuads ==
    <<<<Card(Ace, Spades), Card(Ace, Hearts), Card(Ace, Diamonds), Card(Ace, Clubs)>>,
      <<Card(Ace, Spades), Card(Ace, Hearts), Card(Ace, Diamonds), Card(Ace, Clubs),
        Card(King, Diamonds)>>,
      <<Card(Ace, Spades), Card(Ace, Hearts), Card(Ace, Diamonds), Card(Ace, Clubs),
        Card(Five, Clubs)>>>>
\* The board 5h 6h 7h 8h of the scenario
FourToStraightFlush ==
    <<Card(Five, Hearts), Card(Six, Hearts), Card(Seven, Hearts), Card(Eight, Hearts)>>
\* A board of five hearts with no three ranks within a window
ScatteredFlush ==
    <<Card(Deuce, Hearts), Card(Trey, Hearts), Card(Seven, Hearts), Card(Eight, Hearts),
      Card(Queen, Hearts)>>
\* Boards of hearts at the low end, where the Ace counts low
WheelFlushes ==
    <<<<Card(Deuce, Hearts), Card(Trey, Hearts), Card(Four, Hearts)>>,
      <<Card(Ace, Hearts), Card(Deuce, Hearts), Card(Trey, Hearts)>>,
      <<Card(Ace, Hearts), Card(Trey, Hearts), Card(Four, Hearts), Card(Five, Hearts)>>,
      <<Card(Deuce, Hearts), Card(Trey, Hearts), Card(Four, Hearts), Card(Five, Hearts),
        Card(King, Hearts)>>>>
BoardsOf(deck) ==
    array_combinations(deck, 5) \o array_combinations(deck, 4)
        \o array_combinations(deck, 3)
TextureBoards ==
    BoardsOf(RainbowSeq) \o BoardsOf(FlushSeq) \o BoardsOf(PairedSeq) \o AceQuads
        \o <<FourToStraightFlush, ScatteredFlush>> \o WheelFlushes

TextureInit ==
    /\ GameIdle
    /\ DealIdle
    /\ FullIdle
    /\ ParseIdle
    /\ BoardIdle
    /\ RankIdle
    /\ OrderIdle
    /\ SevenIdle
    /\ SetIdle
    /\ ParIdle
    /\ npc = "board"
    /\ \E i \in DOMAIN TextureBoards : nboard = TextureBoards[i]
    /\ nuts = None
    /\ nhole = <<>>
    /\ nans = None

SpecTexture == TextureInit /\ [][NutsNext]_vars

(***************************************************************************)
(* The nut finder on every arrangement of a board: any card may be the     *)
(* flop, the turn or the river.                                            *)
(***************************************************************************)
\* Bound of the arranged boards: the sets of 3, 4 and 5 cards among the
\* first ArrangeCards cards of a list, each in every order.
ArrangeCards == 5
ArrangeSeq ==
    SubSeq(<<Card(Five, Hearts), Card(Six, Hearts), Card(Seven, Hearts),
             Card(Eight, Hearts), Card(Eight, Diamonds), Card(King, Diamonds)>>,
           1, ArrangeCards)
Arrangements(cards) ==
    {p \in [DOMAIN cards -> Range(cards)] : Range(p) = Range(cards)}
ArrangeBoards ==
    UNION {Arrangements(b) : b \in Range(BoardsOf(ArrangeSeq))}

ArrangeInit ==
    /\ GameIdle
    /\ DealIdle
    /\ FullIdle
    /\ ParseIdle
    /\ BoardIdle
    /\ RankIdle
    /\ OrderIdle
    /\ SevenIdle
    /\ SetIdle
    /\ ParIdle
    /\ npc = "board"
    /\ nboard \in ArrangeBoards
    /\ nuts = None
    /\ nhole = <<>>
    /\ nans = None

SpecArrange == ArrangeInit /\ [][NutsNext]_vars

(***************************************************************************)
(* The session: a Game, its two Players and its Observer. The Game runs    *)
(* hands; the Players and the Observer take their events and answer their  *)
(* turns; each of them may be dropped at any time.                         *)
(***************************************************************************)
\* Bound of the session: the number of run_hand calls.
MaxHands == 2
\* The generators of the shuffle
Generators == {2}
\* The games: the type, and the button rand::random() draws in Game::new
Games == {<<GameType_SNG("Slow"), TRUE>>, <<GameType_Cash("BB100", 0), FALSE>>}
\* The actions a Player sends: a fold, a bet below every range, and a bet
\* that is inside the range of the cash game and the whole stack of the SNG.
SentActions == {Action_fold, bet_or_raise(25)[1], bet_or_raise(15000)[1]}
ObserverViews == {Visibility("Player", FALSE)}
Endpoints == {P0, P1, Ob}
\* A call on a Player or an Observer, with what it returned
GameCall(who, op, arg, res) == [who |-> who, op |-> op, arg |-> arg, res |-> res]
\* An endpoint that was not made yet, and one that was dropped
NotMade == [state |-> "none", hero_turn |-> None]
Dropped == [state |-> "dropped", hero_turn |-> None]
\* The endpoints whose receiver is alive
Receivers == {e \in Endpoints : ends[e].state = "alive"}
\* The oneshot sender of turn k is held by a queued HeroTurn or by a Player.
SenderHeld(k) ==
    \/ \E e \in Endpoints : \E i \in DOMAIN chan[e] :
          chan[e][i].kind = "HeroTurn" /\ chan[e][i].sender = k
    \/ \E e \in Endpoints :
          ends[e].hero_turn # None /\ ends[e].hero_turn[1][2] = k
\* The Game holds the senders of the endpoint's channel: the Players' as long
\* as it lives, the Observer's as long as it has an observer.
SenderAlive(e) ==
    gpc \in {"idle", "awaiting"} /\ (e = Ob => ggame.observer # None)

\* Game::new
GameInit ==
    /\ RankIdle
    /\ OrderIdle
    /\ SevenIdle
    /\ SetIdle
    /\ ParIdle
    /\ NutsIdle
    /\ BoardIdle
    /\ ParseIdle
    /\ FullIdle
    /\ DealIdle
    /\ gpc = "idle"
    /\ \E game \in Games :
          LET game_type == game[1]
              init_button == game[2]
          IN
          /\ ggame = [game_type |-> game_type,
                      init_button |-> init_button,
                      observer |-> None,
                      deck |-> Deck_default(Len(DeckValueArray)),
                      heads_up |-> HeadsUp_new(game_type, init_button)]
          /\ ends = [e \in Endpoints |->
                       IF e = P0
                       THEN Player_new(game_type, Visibility("Player", TRUE), init_button)
                       ELSE IF e = P1
                       THEN Player_new(game_type, Visibility("Player", FALSE), ~init_button)
                       ELSE NotMade]
    /\ gret = <<>>
    /\ gturns = 0
    /\ chan = [e \in Endpoints |-> <<>>]
    /\ shot = <<>>
    /\ gcall = <<>>

\* game.observer(visibility)
CallObserver ==
    /\ gpc = "idle"
    /\ \E visibility \in ObserverViews :
          IF ggame.observer # None
          THEN UNCHANGED <<ggame, ends>>
          ELSE LET button == IF visibility = Visibility("Player", FALSE)
                             THEN ~ggame.init_button ELSE ggame.init_button
               IN /\ ggame' = [ggame EXCEPT !.observer = Some(visibility)]
                  /\ ends' = [ends EXCEPT ![Ob] =
                                Player_new(ggame.game_type, visibility, button)]
    /\ gcall' = <<>>
    /\ UNCHANGED <<gpc, gret, gturns, chan, shot, notGame>>

\* game.run_hand(), up to its return or to the await of the player's action
RunHand ==
    /\ gpc = "idle"
    /\ Len(gret) < MaxHands
    /\ IF ggame.heads_up.game_over # None
       THEN /\ gret' = Append(gret, ggame.heads_up.game_over)
            /\ UNCHANGED <<gpc, ggame, gturns, chan, shot>>
       ELSE \E r \in Generators :
            LET deck == shuffle(ggame.deck, Len(ggame.deck), r)
                h1 == deal_hole(deck)
                h2 == deal_hole(h1[2])
                holes == <<h1[1], h2[1]>>
                dealt == deal_holes(ggame.heads_up, holes)
                bet_info == dealt[1]
                g1 == [ggame EXCEPT !.deck = deck, !.heads_up = dealt[2]]
                sent == dispatch_event(g1, chan, Receivers,
                            ObservableEvent("DealHoles", <<Some(holes[1]), Some(holes[2])>>))
            IN IF sent[1] # None
               THEN LET over == send_game_over(sent[2], sent[3], Receivers,
                                               force_exit(sent[2].heads_up, sent[1][1]))
                    IN /\ ggame' = over[2]
                       /\ chan' = over[3]
                       /\ gret' = Append(gret, over[1])
                       /\ UNCHANGED <<gpc, gturns, shot>>
               ELSE IF bet_info = None
               THEN /\ ggame' = sent[2]
                    /\ chan' = sent[3]
                    /\ gret' = Append(gret, None)
                    /\ UNCHANGED <<gpc, gturns, shot>>
               ELSE LET hero == IF bet_info[1][1] THEN P0 ELSE P1
                    IN /\ ggame' = sent[2]
                       /\ gturns' = gturns + 1
                       /\ shot' = Append(shot, None)
                       /\ IF hero \in Receivers
                          THEN /\ chan' = [sent[3] EXCEPT ![hero] =
                                    Append(@, InternalEvent_HeroTurn(bet_info[1][2],
                                                                     gturns + 1))]
                               /\ gpc' = "awaiting"
                               /\ gret' = gret
                          ELSE /\ chan' = sent[3]
                               /\ gret' = Append(gret, None)
                               /\ gpc' = gpc
    /\ gcall' = <<>>
    /\ UNCHANGED <<ends, notGame>>

\* recv.await in PlayerSender::turn completes: the action was sent, or the
\* sender was dropped; run_hand returns None either way.
ResumeHand ==
    /\ gpc = "awaiting"
    /\ shot[gturns] # None \/ ~SenderHeld(gturns)
    /\ gpc' = "idle"
    /\ gret' = Append(gret, None)
    /\ gcall' = <<>>
    /\ UNCHANGED <<ggame, gturns, chan, ends, shot, notGame>>

\* The Game is dropped, and with it its senders and the receiver of the
\* oneshot channel it awaits.
DropGame ==
    /\ gpc \in {"idle", "awaiting"}
    /\ gpc' = "dropped"
    /\ ggame' = <<>>
    /\ gcall' = <<>>
    /\ UNCHANGED <<gret, gturns, chan, ends, shot, notGame>>

\* A Player or the Observer is dropped: its receiver closes and the events
\* still queued are dropped with it.
DropEndpoint ==
    /\ \E e \in Receivers :
          /\ ends' = [ends EXCEPT ![e] = Dropped]
          /\ chan' = [chan EXCEPT ![e] = <<>>]
    /\ gcall' = <<>>
    /\ UNCHANGED <<gpc, ggame, gret, gturns, shot, notGame>>

\* player.tick_event() and observer.tick_event(); while the queue is empty
\* and a sender lives, recv().await does not complete.
TickEvent ==
    /\ \E e \in Receivers :
          LET self == ends[e]
          IN IF self.heads_up.game_over # None
             THEN /\ gcall' = GameCall(e, "tick_event", <<>>, None)
                  /\ UNCHANGED <<chan, ends>>
             ELSE /\ chan[e] # <<>> \/ ~SenderAlive(e)
                  /\ LET closed == chan[e] = <<>>
                         internal ==
                             IF closed
                             THEN InternalEvent_Observable(
                                      ObservableEvent("GameOver", abort(self.heads_up)))
                             ELSE Head(chan[e])
                         taken == take_player(internal)
                         event == taken[1]
                     IN /\ chan' = IF closed THEN chan ELSE [chan EXCEPT ![e] = Tail(@)]
                        /\ ends' = [ends EXCEPT
                              ![e].hero_turn = taken[2],
                              ![e].heads_up =
                                  IF event.kind = "Observable"
                                  THEN HeadsUp_event(@, event.event) ELSE @]
                        /\ gcall' = GameCall(e, "tick_event", <<>>,
                              IF e = Ob /\ event.kind # "Observable"
                              THEN Some("unreachable") ELSE Some(event))
    /\ UNCHANGED <<gpc, ggame, gret, gturns, shot, notGame>>

\* player.send_action(action)
SendAction ==
    /\ \E e \in Receivers \ {Ob}, action \in SentActions :
          LET self == ends[e]
          IN IF self.hero_turn = None
             THEN /\ gcall' = GameCall(e, "send_action", action, "NotHeroTurn")
                  /\ UNCHANGED <<ends, shot>>
             ELSE LET altered == alter_eq(self.hero_turn[1][1], action)
                      k == self.hero_turn[1][2]
                  IN IF altered = None
                     THEN /\ gcall' = GameCall(e, "send_action", action, "InvalidAction")
                          /\ UNCHANGED <<ends, shot>>
                     ELSE IF gpc = "awaiting" /\ k = gturns
                     THEN /\ shot' = [shot EXCEPT ![k] = altered]
                          /\ ends' = [ends EXCEPT ![e].hero_turn = None]
                          /\ gcall' = GameCall(e, "send_action", action, "Ok")
                     ELSE LET game_over == abort(self.heads_up)
                          IN /\ ends' = [ends EXCEPT
                                   ![e].hero_turn = None,
                                   ![e].heads_up = HeadsUp_event(@,
                                       ObservableEvent("GameOver", game_over))]
                             /\ gcall' = GameCall(e, "send_action", action,
                                                  <<"GameAbort", game_over>>)
                             /\ UNCHANGED shot
    /\ UNCHANGED <<gpc, ggame, gret, gturns, chan, notGame>>

GameNext ==
    \/ CallObserver
    \/ RunHand
    \/ ResumeHand
    \/ DropGame
    \/ DropEndpoint
    \/ TickEvent
    \/ SendAction
SpecGame == GameInit /\ [][GameNext]_vars

(***************************************************************************)
(* Reference notions the claims are stated with                            *)
(***************************************************************************)
ValueSet(cs) == {value(cs[i]) : i \in DOMAIN cs}
SuitSet(cs) == {suit(cs[i]) : i \in DOMAIN cs}
CountOf(cs, v) == Cardinality({i \in DOMAIN cs : value(cs[i]) = v})
Wheel == {Ace, Deuce, Trey, Four, Five}
Broadway == {Ten, Jack, Queen, King, Ace}
\* The top value of the straight five cards of these values make, if any.
RefStraightTop(V) ==
    IF Cardinality(V) = 5 /\ SeqMax(V) - SeqMin(V) = 4 THEN Some(SeqMax(V))
    ELSE IF V = Wheel THEN Some(Five)
    ELSE None
\* The multiplicities of the values of cs, highest first.
RefShape(cs) ==
    Reverse(sort_unstable(
        LET vs == SetDesc(ValueSet(cs)) IN [i \in 1 .. Len(vs) |-> CountOf(cs, vs[i])]))
RefCategory(cs) ==
    LET top == RefStraightTop(ValueSet(cs))
        flush == Cardinality(SuitSet(cs)) = 1
        shape == RefShape(cs)
    IN IF top # None /\ flush
       THEN (IF top = Some(Ace) THEN "RoyalFlush" ELSE "StraightFlush")
       ELSE IF flush THEN "Flush"
       ELSE IF top # None THEN "Straight"
       ELSE IF shape = <<4, 1>> THEN "Quads"
       ELSE IF shape = <<3, 2>> THEN "FullHouse"
       ELSE IF shape = <<3, 1, 1>> THEN "Trips"
       ELSE IF shape = <<2, 2, 1>> THEN "TwoPair"
       ELSE IF shape = <<2, 1, 1, 1>> THEN "OnePair"
       ELSE IF shape = <<1, 1, 1, 1, 1>> THEN "HighCard"
       ELSE "none"
Categories ==
    {"RoyalFlush", "StraightFlush", "Quads", "FullHouse", "Flush", "Straight",
     "Trips", "TwoPair", "OnePair", "HighCard"}
\* p lists each value of cs once, by count descending then value descending.
CountThenValueDesc(cs, p) ==
    /\ Range(p) = ValueSet(cs)
    /\ \A i, j \in DOMAIN p :
          i < j => \/ CountOf(cs, p[i]) > CountOf(cs, p[j])
                   \/ CountOf(cs, p[i]) = CountOf(cs, p[j]) /\ p[i] > p[j]

\* The ranks of the cards cs on the straight scale 0 .. 13, an Ace counting
\* both as 13 and as 0.
ScaleOf(cs) ==
    LET u == {value(cs[i]) + 1 : i \in DOMAIN cs}
    IN IF Ace + 1 \in u THEN u \cup {0} ELSE u
\* The ranks the 5-wide window starting at s misses among the cards cs.
Missing(cs, s) == (s .. (s + 4)) \ ScaleOf(cs)
\* The windows that miss at most two ranks, and the highest of them.
NearWindows(cs) == {s \in 0 .. 9 : Cardinality(Missing(cs, s)) <= 2}
TopWindow(cs) == SeqMax(NearWindows(cs))
ScaleValue(u) == IF u = 0 THEN Ace ELSE u - 1
MissingValues(cs, s) == {ScaleValue(u) : u \in Missing(cs, s)}
\* No suit on three or more cards, no repeated rank.
Rainbow(cs) == \A s \in Suits : Cardinality({i \in DOMAIN cs : suit(cs[i]) = s}) < 3
Unpaired(cs) == Cardinality(ValueSet(cs)) = Len(cs)

\* The suit three or more of the cards cs share, and the cards of that suit.
FlushSuits(cs) == {s \in Suits : Cardinality({i \in DOMAIN cs : suit(cs[i]) = s}) >= 3}
FlushSuit(cs) == CHOOSE s \in FlushSuits(cs) : TRUE
FlushPart(cs) == SelectSeq(cs, LAMBDA c : suit(c) = FlushSuit(cs))
\* The windows in which exactly one rank is missing.
OneMissing(cs) == {s \in 0 .. 9 : Cardinality(Missing(cs, s)) = 1}
\* The highest window below the top one that misses other ranks than it.
NextWindows(cs) ==
    {s \in NearWindows(cs) : Missing(cs, s) # Missing(cs, TopWindow(cs))}
\* The window whose single missing rank decides the board, if there is one:
\* the top window, or the next one when the top window misses two ranks.
DecidingWindow(cs) ==
    IF NearWindows(cs) = {} THEN None
    ELSE IF Cardinality(Missing(cs, TopWindow(cs))) = 1 THEN Some(TopWindow(cs))
    ELSE IF /\ Cardinality(Missing(cs, TopWindow(cs))) = 2
            /\ NextWindows(cs) # {}
            /\ Cardinality(Missing(cs, SeqMax(NextWindows(cs)))) = 1
    THEN Some(SeqMax(NextWindows(cs)))
    ELSE None
\* The card of the flush suit the window s misses.
MissingCard(cs, s) ==
    Card(CHOOSE v \in MissingValues(FlushPart(cs), s) : TRUE, FlushSuit(cs))

(***************************************************************************)
(* Claims                                                                  *)
(***************************************************************************)

\* C4: every 5-card hand is classified into exactly one of the ten
\* categories, the one the cascade straight+flush, flush, straight, then
\* multiplicity shape selects; the payload is the top value of a straight,
\* and otherwise the values by count descending then value descending; the
\* fallback unreachable!() arm is never taken.
C4_RankerCascade ==
    rpc = "ranked" =>
        /\ hv.cat \in Categories
        /\ hv.cat = RefCategory(hand)
        /\ hv.cat = "RoyalFlush" => hv.vals = <<>>
        /\ hv.cat \in {"StraightFlush", "Straight"} =>
               Some(hv.vals[1]) = RefStraightTop(ValueSet(hand)) /\ Len(hv.vals) = 1
        /\ hv.cat \notin {"RoyalFlush", "StraightFlush", "Straight"} =>
               CountThenValueDesc(hand, hv.vals)
C4_Witness ==
    /\ rpc = "ranked"
    /\ hv = HV("TwoPair", <<Ace, Deuce, King>>)

\* C6: five cards of ranks A,2,3,4,5 are a straight with top value Five
\* (a straight flush of Five when suited), five of ranks T,J,Q,K,A have top
\* value Ace, and no run that wraps around the Ace is a straight.
C6_Wheel ==
    rpc = "ranked" =>
        LET V == ValueSet(hand)
            flush == Cardinality(SuitSet(hand)) = 1
        IN /\ V = Wheel =>
                hv = (IF flush THEN HV("StraightFlush", <<Five>>)
                               ELSE HV("Straight", <<Five>>))
           /\ V = Broadway =>
                hv = (IF flush THEN HV("RoyalFlush", <<>>)
                               ELSE HV("Straight", <<Ace>>))
           /\ (\E k \in {Jack, Queen, King} : V = {(k + i) % 13 : i \in 0 .. 4}) =>
                hv.cat \notin {"Straight", "StraightFlush", "RoyalFlush"}
C6_Witness ==
    /\ rpc = "ranked"
    /\ ValueSet(hand) = Wheel
    /\ hv = HV("StraightFlush", <<Five>>)

\* C5: the comparison of HandValue is a total order: a higher category
\* beats a lower one in the order Royal Flush > Straight Flush > Quads >
\* Full House > Flush > Straight > Trips > Two Pair > One Pair > High Card,
\* equal categories compare by payload lexicographically, Equal is returned
\* exactly for equal values, and the order is antisymmetric and transitive.
CategoryRank(c) ==
    CASE c = "RoyalFlush" -> 9 [] c = "StraightFlush" -> 8 [] c = "Quads" -> 7
      [] c = "FullHouse" -> 6 [] c = "Flush" -> 5 [] c = "Straight" -> 4
      [] c = "Trips" -> 3 [] c = "TwoPair" -> 2 [] c = "OnePair" -> 1
      [] c = "HighCard" -> 0
Lexicographic(a, b) ==
    IF a = b THEN "Equal"
    ELSE IF \E i \in DOMAIN a : a[i] < b[i] /\ \A j \in 1 .. (i - 1) : a[j] = b[j]
         THEN "Less" ELSE "Greater"
Flip(o) == IF o = "Less" THEN "Greater" ELSE IF o = "Greater" THEN "Less" ELSE o
OrderValues == {HandValueFrom(h) : h \in OrderHands}
C5_TotalOrder ==
    opc = "compared" =>
        LET o == ord[1] IN
        /\ o \in {"Less", "Equal", "Greater"}
        /\ (o = "Equal") <=> (v1 = v2)
        /\ cmp(v2, v1) = Flip(o)
        /\ CategoryRank(v1.cat) > CategoryRank(v2.cat) => o = "Greater"
        /\ CategoryRank(v1.cat) < CategoryRank(v2.cat) => o = "Less"
        /\ v1.cat = v2.cat => o = Lexicographic(v1.vals, v2.vals)
        /\ \A z \in OrderValues :
              (o # "Greater" /\ cmp(v2, z) # "Greater") => cmp(v1, z) # "Greater"
C5_Witness ==
    /\ opc = "compared"
    /\ v1 = HV("FullHouse", <<King, Ace>>)
    /\ v2 = HV("Flush", <<Ace, King, Queen, Jack, Nine>>)
    /\ ord = Some("Greater")

\* C3: the value hand_value gives a 7-card set is not less than the value of
\* any of its 21 five-card subsets and is the value of one of them.
C3_BestOfSeven ==
    spc \in {"valued", "done"} =>
        LET seven == to_seven(sboard, sh1)
            fives == {Range(seven) \ {x, y} : x, y \in Range(seven)}
                         \ {Range(seven) \ {x} : x \in Range(seven)}
            subs == {HandValueFrom(DeckSeq(f)) : f \in fives}
        IN /\ Cardinality(fives) = 21
           /\ \A w \in subs : cmp(sval[1], w) # "Less"
           /\ sval[1] \in subs
C3_Witness ==
    /\ spc = "valued"
    /\ sval = Some(HV("FullHouse", <<Ace, King>>))

\* C7: who_wins(h1, h2) flags Some(true) exactly when h1's best hand is
\* strictly greater, Some(false) exactly when h2's is, None exactly on a tie;
\* the value returned is the greater of the two, and swapping the holes
\* returns the same value with the flag negated.
Negated(flag) == IF flag = None THEN None ELSE Some(~flag[1])
C7_WhoWins ==
    spc = "done" =>
        LET b1 == FullBoard_hand_value(sboard, sh1)
            b2 == FullBoard_hand_value(sboard, sh2)
            best == swin[1][1]
            flag == swin[1][2]
            swapped == who_wins(sboard, sh2, sh1)
        IN /\ (flag = Some(TRUE)) <=> (cmp(b1, b2) = "Greater")
           /\ (flag = Some(FALSE)) <=> (cmp(b2, b1) = "Greater")
           /\ (flag = None) <=> (b1 = b2)
           /\ best \in {b1, b2}
           /\ cmp(best, b1) # "Less" /\ cmp(best, b2) # "Less"
           /\ swapped = <<best, Negated(flag)>>
C7_Witness ==
    /\ spc = "done"
    /\ swin = Some(<<HV("Quads", <<Ace, King>>), Some(FALSE)>>)

\* C9: CardsCombined::new returns None if and only if two of the N input
\* cards are the same card; otherwise the set it returns holds exactly the N
\* given cards.
HasDuplicate(a) == \E i, j \in DOMAIN a : i < j /\ a[i] = a[j]
C9_NewIffNoDuplicate ==
    cpc \in {"first", "second", "compared"} =>
        /\ (setA = None) <=> HasDuplicate(arrA)
        /\ setA # None =>
              /\ Len(setA[1]) = Len(arrA)
              /\ \A c \in Range(SetDeckSeq) :
                    Cardinality({i \in DOMAIN setA[1] : setA[1][i] = c})
                        = Cardinality({i \in DOMAIN arrA : arrA[i] = c})
C9_Witness ==
    /\ cpc = "first"
    /\ arrA = <<Card(King, Hearts), Card(Deuce, Clubs), Card(King, Hearts)>>
    /\ setA = None

\* C10: two card sets of the same size are equal if and only if they
\* contain the same cards, whatever the order they were constructed in.
C10_EqualityIgnoresOrder ==
    cpc = "compared" =>
        /\ Len(setA[1]) = Len(setB[1])
        /\ (eq = Some(TRUE)) <=> (Range(setA[1]) = Range(setB[1]))
        /\ (eq = Some(FALSE)) <=> (Range(setA[1]) # Range(setB[1]))
C10_Witness ==
    /\ cpc = "compared"
    /\ setA = Some(<<Card(King, Hearts), Card(Deuce, Clubs), Card(Ace, Spades)>>)
    /\ setB = Some(<<Card(Ace, Spades), Card(King, Hearts), Card(Deuce, Clubs)>>)
    /\ eq = Some(TRUE)

\* C8: whatever way the slices are split and whatever order the pieces of
\* the two hand_value calls are folded and reduced in, who_wins returns the
\* value and the flag of the sequential evaluation and each hand_value is
\* the sequential one; until the result is returned some worker can take a
\* step, and every step brings the evaluation nearer to its end.
SameAsSequential ==
    ppc = "done" =>
        /\ pwin = Some(who_wins(pboard, pholes[1], pholes[2]))
        /\ \A t \in {1, 2} :
              ptask[t].pieces[1].val = Some(FullBoard_hand_value(pboard, pholes[t]))
NotBlocked ==
    ppc = "join" =>
        \/ CanMatch
        \/ \E t \in {1, 2} : \E i \in DOMAIN ptask[t].pieces :
              CanSplit(t, i) \/ CanFold(t, i) \/ CanCombine(t, i)
\* What is left to do in one reduction: a slice of n items can be split
\* n - 1 times, an untaken piece is still to be folded, and the pieces are
\* still to be reduced to one.
TaskWork(t) ==
    4 * (Len(FiveOfSeven) - 1 - ptask[t].splits)
        + 2 * Cardinality({i \in DOMAIN ptask[t].pieces : Untaken(t, i)})
        + Len(ptask[t].pieces)
WorkLeft == (IF ppc = "join" THEN 1 ELSE 0) + TaskWork(1) + TaskWork(2)
C8_SchedulingIndependent ==
    [](SameAsSequential /\ NotBlocked /\ WorkLeft >= 0)
        /\ [][WorkLeft' < WorkLeft]_vars
C8_Witness ==
    /\ ppc = "done"
    /\ ptask[1].splits = ParSplits
    /\ ptask[2].splits = 0
    /\ pwin = Some(<<HV("FullHouse", <<King, Ace>>), Some(FALSE)>>)

\* C2: find_nuts never panics on a board of 3, 4 or 5 distinct cards: it
\* returns a descriptor, and no unreachable!() arm is reached.
C2_FindNutsNeverPanics ==
    npc # "board" => npc # "panicked" /\ nuts # None

\* C1: for every board of 3, 4 or 5 cards and every holding H off the
\* board, is_nuts(H) is true if and only if no other holding, disjoint from
\* the board and from H, makes a strictly greater best 5-card hand with the
\* board than H does.
FullDeck == {Card(v, s) : v \in Values, s \in Suits}
FiveOf == [n \in 5 .. 7 |-> array_combinations([i \in 1 .. n |-> i], 5)]
\* The best hand of five among the cards cs (5 to 7 of them).
BestHand(cs) ==
    LET hands == [k \in DOMAIN FiveOf[Len(cs)] |->
                    HandValueFrom([j \in 1 .. 5 |-> cs[FiveOf[Len(cs)][k][j]]])]
    IN CHOOSE h \in Range(hands) : \A g \in Range(hands) : cmp(g, h) # "Greater"
Unbeaten(board, hole) ==
    LET mine == BestHand(board \o hole)
        rest == FullDeck \ (Range(board) \cup Range(hole))
    IN \A a, b \in rest :
          Card_as_u8(a) < Card_as_u8(b) =>
              cmp(BestHand(board \o <<a, b>>), mine) # "Greater"
C1_NutsIffUnbeaten ==
    npc = "answered" => (nans = Some(TRUE) <=> Unbeaten(nboard, nhole))

\* C11: two card sets that compare equal feed the same data to the hasher,
\* so that their hashes are equal.
C11_HashFollowsEquality ==
    cpc = "hashed" /\ eq = Some(TRUE) => hashA = hashB

\* C12: turn(c) succeeds exactly on a Flop board that does not hold c, and
\* river(c) exactly on a Turn board that does not hold c; every other call
\* returns None, and no call changes the board it was made on.
TurnLegal(self, c) == self.stage = "Flop" /\ c \notin Range(self.flop)
RiverLegal(self, c) ==
    self.stage = "Turn" /\ c \notin Range(self.flop) \cup {self.turn}
C12_TransitionsGuarded ==
    /\ [](/\ bcall.op = "turn" =>
                (bres # None <=> TurnLegal(bboard, bcall.cards[1]))
          /\ bcall.op = "river" =>
                (bres # None <=> RiverLegal(bboard, bcall.cards[1])))
    /\ [][bcall'.op \in {"turn", "river"} => bboard' = bboard]_vars
\* A turn card that is already on the flop is refused.
C12_Witness ==
    /\ bcall.op = "turn"
    /\ bboard.stage = "Flop"
    /\ bcall.cards[1] \in Range(bboard.flop)
    /\ bres = None

\* C13: every board a constructor or a transition returns, and every board
\* a call is made on, holds 0, 3, 4 or 5 cards that are pairwise distinct.
WellFormed(b) ==
    /\ Len(to_vec(b)) \in {0, 3, 4, 5}
    /\ Cardinality(Range(to_vec(b))) = Len(to_vec(b))
C13_BoardsWellFormed ==
    /\ WellFormed(bboard)
    /\ bres # None => WellFormed(bres[1])
\* A river board parsed from text, all of its five cards distinct.
C13_Witness ==
    /\ bcall.op = "from_str"
    /\ bres # None
    /\ bres[1].stage = "River"
    /\ Len(to_vec(bres[1])) = 5

\* C14: a successful turn(c) or river(c) returns a board one stage later
\* whose to_vec() is the to_vec() of the board it was called on followed by
\* c; on a River board both return None; as_full_board() is Some exactly on
\* a River board, with the five cards of to_vec(); and the board a caller
\* moves to after a transition keeps the cards it had, in their order.
StageRank(b) ==
    CASE b.stage = "Preflop" -> 0
      [] b.stage = "Flop" -> 3
      [] b.stage = "Turn" -> 4
      [] b.stage = "River" -> 5
IsPrefix(a, b) == Len(a) <= Len(b) /\ SubSeq(b, 1, Len(a)) = a
Transitions == {"turn", "river"}
C14_ForwardAppendOnly ==
    /\ [](/\ bcall.op \in Transitions /\ bres # None =>
                /\ to_vec(bres[1]) = Append(to_vec(bboard), bcall.cards[1])
                /\ StageRank(bres[1]) = StageRank(bboard) + 1
          /\ bcall.op \in Transitions /\ bboard.stage = "River" => bres = None
          /\ bcall.op = "as_full_board" =>
                /\ bfull # None <=> bboard.stage = "River"
                /\ bfull # None => bfull[1] = to_vec(bboard))
    /\ [][bcall.op \in Transitions /\ bboard' # bboard =>
             /\ IsPrefix(to_vec(bboard), to_vec(bboard'))
             /\ StageRank(bboard') > StageRank(bboard)]_vars
\* A river card was appended to a turn board.
C14_Witness ==
    /\ bcall.op = "river"
    /\ bres # None
    /\ to_vec(bres[1]) = Append(to_vec(bboard), bcall.cards[1])
    /\ Len(to_vec(bres[1])) = 5
\* as_full_board on a river board
C14_FullBoardWitness ==
    /\ bcall.op = "as_full_board"
    /\ bfull # None

\* C15: from_slice returns a board exactly for the lists of 0, 3, 4 or 5
\* pairwise distinct cards: Preflop, Flop, Turn or River, with to_vec()
\* equal to the list; for every other list it returns None.
StageOfLen(n) ==
    CASE n = 0 -> "Preflop" [] n = 3 -> "Flop" [] n = 4 -> "Turn"
      [] n = 5 -> "River"
C15_FromSliceAccepts ==
    bcall.op = "from_slice" =>
        LET cards == bcall.cards
            accepted ==
                /\ Len(cards) \in {0, 3, 4, 5}
                /\ \A i, j \in DOMAIN cards : i # j => cards[i] # cards[j]
        IN /\ bres # None <=> accepted
           /\ bres # None =>
                 /\ bres[1].stage = StageOfLen(Len(cards))
                 /\ to_vec(bres[1]) = cards
\* Five distinct cards were accepted as a River board.
C15_Witness ==
    /\ bcall.op = "from_slice"
    /\ Len(bcall.cards) = 5
    /\ bres # None
    /\ bres[1].stage = "River"
\* Lists that are refused: a repeated card, and six cards.
C15_RefusedWitness ==
    /\ bcall.op = "from_slice"
    /\ Len(bcall.cards) = 6
    /\ bres = None

\* C16: a text parses into a card set of size N exactly when its words (the
\* runs between whitespace), cut into pieces of two characters, are N valid
\* tokens of pairwise distinct cards; the set then holds those cards.
RECURSIVE Words(_, _)
Words(s, word) ==
    IF s = <<>> THEN (IF word = <<>> THEN <<>> ELSE <<word>>)
    ELSE IF Head(s) \in White_Space
         THEN (IF word = <<>> THEN <<>> ELSE <<word>>) \o Words(Tail(s), <<>>)
         ELSE Words(Tail(s), Append(word, Head(s)))
RECURSIVE Pieces(_)
Pieces(word) ==
    IF Len(word) <= 2 THEN <<word>>
    ELSE <<SubSeq(word, 1, 2)>> \o Pieces(SubSeq(word, 3, Len(word)))
RECURSIVE Tokens(_)
Tokens(words) ==
    IF words = <<>> THEN <<>> ELSE Pieces(Head(words)) \o Tokens(Tail(words))
ValidToken(t) ==
    /\ Len(t) = 2
    /\ \E i \in DOMAIN ValueSymbols : t[1] = ValueSymbols[i]
    /\ \E i \in DOMAIN SuitSymbols : t[2] = SuitSymbols[i]
CardOf(t) ==
    Card((CHOOSE i \in DOMAIN ValueSymbols : t[1] = ValueSymbols[i]) - 1,
         (CHOOSE i \in DOMAIN SuitSymbols : t[2] = SuitSymbols[i]) - 1)
C16_ParseTokens ==
    tpc = "parsed" =>
        LET tokens == Tokens(Words(ttext, <<>>))
            wellFormed ==
                /\ Len(tokens) = tsize
                /\ \A i \in DOMAIN tokens : ValidToken(tokens[i])
                /\ \A i, j \in DOMAIN tokens : i # j => tokens[i] # tokens[j]
        IN /\ tset # None <=> wellFormed
           /\ tset # None => tset[1] = [i \in DOMAIN tokens |-> CardOf(tokens[i])]
\* Two tokens with whitespace between them parse into the set of both.
C16_Witness ==
    /\ tpc = "parsed"
    /\ ttext = <<"A", "s", " ", "A", "h">>
    /\ tset = Some(<<Card(Ace, Spades), Card(Ace, Hearts)>>)

\* C17 as the specification states it: on the board As Ks Qs the descriptor
\* of find_nuts accepts the holding Js Ts and no other holding.
RoyalDraw == <<Card(Ace, Spades), Card(King, Spades), Card(Queen, Spades)>>
C17_OnlyJackTen ==
    npc = "answered" /\ nboard = RoyalDraw =>
        (nans = Some(TRUE)
            <=> Range(nhole) = {Card(Jack, Spades), Card(Ten, Spades)})
\* C17, amended: on the board As Ks Qs find_nuts returns
\* CardPlusAnySuited(Js), which accepts Js Ts and every other holding of Js
\* with a second spade, and no holding without Js or with an off-suit card.
C17_JackPlusAnySpade ==
    /\ npc \in {"found", "answered"} /\ nboard = RoyalDraw =>
          nuts = Some(FindNuts("CardPlusAnySuited", <<Card(Jack, Spades)>>))
    /\ npc = "answered" /\ nboard = RoyalDraw =>
          (nans = Some(TRUE)
              <=> /\ Card(Jack, Spades) \in Range(nhole)
                  /\ \A c \in Range(nhole) : suit(c) = Spades)
\* Js Ts was accepted on As Ks Qs.
C17_Witness ==
    /\ npc = "answered"
    /\ nboard = RoyalDraw
    /\ nhole = <<Card(Jack, Spades), Card(Ten, Spades)>>
    /\ nans = Some(TRUE)

\* C18 as the specification states it: on the board 2h 2d 2c the descriptor
\* of find_nuts accepts pocket Aces.
TripDeuces == <<Card(Deuce, Hearts), Card(Deuce, Diamonds), Card(Deuce, Clubs)>>
C18_PocketAces ==
    npc = "answered" /\ nboard = TripDeuces /\ is_pocket(nhole, Ace) =>
        nans = Some(TRUE)
\* C18, amended: on the board 2h 2d 2c find_nuts returns OneValue(Deuce),
\* which accepts exactly the holdings with the fourth deuce (quads) and
\* refuses pocket Aces.
C18_FourthDeuce ==
    /\ npc \in {"found", "answered"} /\ nboard = TripDeuces =>
          nuts = Some(FindNuts("OneValue", <<Deuce>>))
    /\ npc = "answered" /\ nboard = TripDeuces =>
          (nans = Some(TRUE) <=> \E c \in Range(nhole) : value(c) = Deuce)
\* A holding with the fourth deuce was accepted on 2h 2d 2c.
C18_Witness ==
    /\ npc = "answered"
    /\ nboard = TripDeuces
    /\ nhole = <<Card(Ace, Clubs), Card(Deuce, Spades)>>
    /\ nans = Some(TRUE)

\* C19: when is_nuts() is true for a full board, each of two holes off the
\* board has a 7-card hand value equal to the 5-card value of the board
\* itself, and who_wins names no winner.
C19_NutBoardUnbeatable ==
    fpc = "done" /\ fans = Some(TRUE) =>
        /\ fwin = Some(<<HandValueFrom(fboard), None>>)
        /\ \A i \in 1 .. 2 :
              FullBoard_hand_value(fboard, fholes[i]) = HandValueFrom(fboard)
\* An Ace-high straight on board with no three cards of a suit, and two
\* holes that tie on it.
C19_Witness ==
    /\ fpc = "done"
    /\ fans = Some(TRUE)
    /\ HandValueFrom(fboard) = HV("Straight", <<Ace>>)
    /\ fwin = Some(<<HV("Straight", <<Ace>>), None>>)
\* Quads with the best kicker on board, and two holes that tie on it.
C19_QuadsWitness ==
    /\ fpc = "done"
    /\ fans = Some(TRUE)
    /\ fwin = Some(<<HV("Quads", <<King, Ace>>), None>>)

\* C20: Deck::default holds each of the 52 cards once; the deck stays a
\* permutation of it through the shuffle; and the cards dealt after one
\* shuffle_and_deal are all different, so that each Hole and the Flop have
\* no repeated card and no two of them share a card.
IsPermutation(a, b) == Len(a) = Len(b) /\ Range(a) = Range(b)
NoRepeat(a) == Cardinality(Range(a)) = Len(a)
Dealt ==
    (IF Len(kholes) >= 1 THEN kholes[1] ELSE <<>>)
        \o (IF Len(kholes) >= 2 THEN kholes[2] ELSE <<>>)
        \o (IF kflop # None THEN kflop[1] ELSE <<>>) \o kcards
WholeDeck == Deck_default(Len(DeckValueArray))
WholeDeckOnce == Range(WholeDeck) = FullDeck /\ Len(WholeDeck) = 52
C20_DealerDisjoint ==
    kpc # "idle" =>
        /\ WholeDeckOnce
        /\ NoRepeat(DealDeck)
        /\ IsPermutation(kdeck, DealDeck)
        /\ NoRepeat(Dealt)
        /\ \A i \in DOMAIN kholes : new(kholes[i]) # None
        /\ kflop # None => new(kflop[1]) # None
        /\ \A i, j \in DOMAIN kholes :
              i # j => Range(kholes[i]) \cap Range(kholes[j]) = {}
        /\ \A i \in DOMAIN kholes :
              kflop # None => Range(kholes[i]) \cap Range(kflop[1]) = {}
\* Two holes, the flop and a turn card were dealt from a deck the shuffle
\* has reordered.
C20_Witness ==
    /\ kpc = "dealing"
    /\ Len(kholes) = 2
    /\ kflop # None
    /\ Len(kcards) = 1
    /\ kdeck # DealDeck


\* C21: on a board with no suit on three or more cards and no repeated rank,
\* find_nuts takes the highest 5-wide rank window (Ace high and low) that
\* misses at most two ranks: AnyTwo if it misses none, OneValue(r) if it
\* misses exactly r, TwoValues of the two missing ranks if it misses two;
\* without such a window it returns PocketPair of the highest board rank.
C21_RainbowWindow ==
    npc # "board" /\ Rainbow(nboard) /\ Unpaired(nboard) =>
        /\ nuts # None
        /\ LET found == nuts[1]
               wins == NearWindows(nboard)
               miss == MissingValues(nboard, TopWindow(nboard))
           IN IF wins = {}
              THEN found = FindNuts("PocketPair", <<SeqMax(ValueSet(nboard))>>)
              ELSE CASE Cardinality(miss) = 0 -> found = FindNuts("AnyTwo", <<>>)
                     [] Cardinality(miss) = 1 ->
                            found.kind = "OneValue" /\ {found.fields[1]} = miss
                     [] Cardinality(miss) = 2 ->
                            /\ found.kind = "TwoValues"
                            /\ Range(found.fields[1]) = miss
\* The four outcomes: a straight on the board, one rank missing, two ranks
\* missing, and pocket Nines on 2c 7d 9h.
C21_Witness ==
    /\ npc = "found"
    /\ nboard = <<Card(Deuce, Clubs), Card(Seven, Diamonds), Card(Nine, Hearts)>>
    /\ nuts = Some(FindNuts("PocketPair", <<Nine>>))
C21_StraightWitness ==
    /\ npc = "found"
    /\ Rainbow(nboard) /\ Unpaired(nboard)
    /\ nuts = Some(FindNuts("AnyTwo", <<>>))
C21_OneValueWitness ==
    /\ npc = "found"
    /\ Rainbow(nboard) /\ Unpaired(nboard)
    /\ nuts = Some(FindNuts("OneValue", <<Ten>>))
C21_TwoValuesWitness ==
    /\ npc = "found"
    /\ Rainbow(nboard) /\ Unpaired(nboard)
    /\ nuts = Some(FindNuts("TwoValues", <<<<King, Jack>>>>))


\* C22 as the specification states it: on a flush-possible board where some
\* straight-flush window misses exactly one rank of the flush suit,
\* find_nuts returns CardPlusAny of the card such a window misses.
C22_AnyOneMissingWindow ==
    npc # "board" /\ FlushSuits(nboard) # {} /\ OneMissing(FlushPart(nboard)) # {} =>
        /\ nuts # None
        /\ nuts[1].kind = "CardPlusAny"
        /\ \E s \in OneMissing(FlushPart(nboard)) :
              nuts[1].fields[1] = MissingCard(nboard, s)

\* C22, amended: on a flush-possible board where the highest straight-flush
\* window missing at most two ranks of the flush suit misses exactly one, or
\* misses two while the next window below it that misses other ranks misses
\* exactly one, find_nuts returns CardPlusAny of that one card, and every
\* holding with that card and any second card off the board is accepted and
\* unbeaten; on 5h 6h 7h 8h the card is the 9h.
C22_DecidingWindow ==
    /\ npc # "board" /\ FlushSuits(nboard) # {}
            /\ DecidingWindow(FlushPart(nboard)) # None =>
          /\ nuts = Some(FindNuts("CardPlusAny",
                     <<MissingCard(nboard, DecidingWindow(FlushPart(nboard))[1])>>))
          /\ npc = "answered" /\ contains_card(nhole, nuts[1].fields[1]) =>
                 nans = Some(TRUE) /\ Unbeaten(nboard, nhole)
    /\ npc # "board" /\ nboard = FourToStraightFlush =>
          nuts = Some(FindNuts("CardPlusAny", <<Card(Nine, Hearts)>>))
\* On 5h 6h 7h 8h the holding Ac 9h was asked about.
C22_Witness ==
    /\ npc = "answered"
    /\ nboard = FourToStraightFlush
    /\ nhole = <<Card(Ace, Clubs), Card(Nine, Hearts)>>
    /\ nans = Some(TRUE)
\* The top window misses two ranks and the next one misses one.
C22_SecondWindowWitness ==
    /\ npc = "found"
    /\ FlushSuits(nboard) # {}
    /\ DecidingWindow(FlushPart(nboard)) # None
    /\ DecidingWindow(FlushPart(nboard))[1] # TopWindow(FlushPart(nboard))


\* C23: on an unpaired flush-possible board where no straight-flush window
\* misses two or fewer ranks of the flush suit, find_nuts names the highest
\* rank of the flush suit that is not on the board as the key card:
\* CardPlusAnySuited(card) when exactly three board cards share the suit (the
\* second hole card must then be of that suit too), CardPlusAny(card) when
\* four or five do.
HighestOffBoard(cs) ==
    Card(SeqMax(Values \ ValueSet(FlushPart(cs))), FlushSuit(cs))
C23_FlushFallback ==
    npc # "board" /\ FlushSuits(nboard) # {} /\ Unpaired(nboard)
            /\ NearWindows(FlushPart(nboard)) = {} =>
        LET key == HighestOffBoard(nboard)
            three == Len(FlushPart(nboard)) = 3
        IN /\ nuts = Some(FindNuts(IF three THEN "CardPlusAnySuited" ELSE "CardPlusAny",
                                   <<key>>))
           /\ npc = "answered" =>
                  nans = Some(/\ key \in Range(nhole)
                              /\ three => \A i \in DOMAIN nhole :
                                             suit(nhole[i]) = FlushSuit(nboard))
\* Three hearts on a 4-card board: Ah Th is accepted.
C23_Witness ==
    /\ npc = "answered"
    /\ Len(nboard) = 4
    /\ nuts = Some(FindNuts("CardPlusAnySuited", <<Card(Ace, Hearts)>>))
    /\ Len(FlushPart(nboard)) = 3
    /\ Unpaired(nboard) /\ NearWindows(FlushPart(nboard)) = {}
    /\ nhole = <<Card(Ten, Hearts), Card(Ace, Hearts)>>
    /\ nans = Some(TRUE)
\* Four hearts, and five hearts: the Ace of hearts with any card.
C23_FourWitness ==
    /\ npc = "answered"
    /\ nuts = Some(FindNuts("CardPlusAny", <<Card(Ace, Hearts)>>))
    /\ Len(FlushPart(nboard)) = 4
    /\ Unpaired(nboard) /\ NearWindows(FlushPart(nboard)) = {}
    /\ nhole = <<Card(Ace, Spades), Card(Ace, Hearts)>>
    /\ nans = Some(TRUE)
C23_FiveWitness ==
    /\ npc = "found"
    /\ nboard = ScatteredFlush
    /\ NearWindows(FlushPart(nboard)) = {}
    /\ nuts = Some(FindNuts("CardPlusAny", <<Card(Ace, Hearts)>>))


\* C24: on a board showing four of a kind (no suit is then flush-possible),
\* find_nuts returns AnyTwo exactly when the board has five cards and its
\* kicker is the best kicker there is (the Ace, or the King when the quads
\* are Aces); otherwise it returns OneValue of that best kicker rank, so that
\* is_nuts accepts the holdings containing that rank.
QuadRanks(cs) == {v \in ValueSet(cs) : CountOf(cs, v) = 4}
BestKicker(cs) == IF QuadRanks(cs) = {Ace} THEN King ELSE Ace
C24_QuadsKicker ==
    npc # "board" /\ QuadRanks(nboard) # {} =>
        LET best == BestKicker(nboard)
            any == Len(nboard) = 5 /\ ValueSet(nboard) \ QuadRanks(nboard) = {best}
        IN /\ FlushSuits(nboard) = {}
           /\ nuts = Some(IF any THEN FindNuts("AnyTwo", <<>>)
                          ELSE FindNuts("OneValue", <<best>>))
           /\ npc = "answered" => nans = Some(any \/ best \in ValueSet(nhole))
\* Four Nines and the Ace: any two cards; four Aces and a Five: a King.
C24_Witness ==
    /\ npc = "answered"
    /\ QuadRanks(nboard) = {Nine}
    /\ Ace \in ValueSet(nboard)
    /\ nuts = Some(FindNuts("AnyTwo", <<>>))
    /\ nans = Some(TRUE)
C24_KingWitness ==
    /\ npc = "answered"
    /\ QuadRanks(nboard) = {Ace}
    /\ Len(nboard) = 5
    /\ nuts = Some(FindNuts("OneValue", <<King>>))
    /\ nhole = <<Card(King, Clubs), Card(Deuce, Spades)>>
    /\ nans = Some(TRUE)

\* C25: on a board with exactly one paired rank, one to three singleton
\* ranks and no flush-possible suit, find_nuts returns
\* PocketOrTwo(pair, [pair, highest singleton]) when the pair rank is higher
\* than every singleton, and PocketPair(pair) when a singleton outranks it.
PairRanks(cs) == {v \in ValueSet(cs) : CountOf(cs, v) = 2}
Singletons(cs) == {v \in ValueSet(cs) : CountOf(cs, v) = 1}
OnePairBoard(cs) ==
    /\ Cardinality(PairRanks(cs)) = 1
    /\ ValueSet(cs) = PairRanks(cs) \cup Singletons(cs)
    /\ Singletons(cs) # {}
C25_SinglePair ==
    npc # "board" /\ OnePairBoard(nboard) /\ FlushSuits(nboard) = {} =>
        LET pair == CHOOSE v \in PairRanks(nboard) : TRUE
            high == SeqMax(Singletons(nboard))
        IN /\ nuts = Some(IF pair > high
                          THEN FindNuts("PocketOrTwo", <<pair, <<pair, high>>>>)
                          ELSE FindNuts("PocketPair", <<pair>>))
           /\ npc = "answered" =>
                  nans = Some(\/ ValueSet(nhole) = {pair}
                              \/ pair > high /\ ValueSet(nhole) = {pair, high})
\* 9 9 with lower singletons, the higher of them the Five; and 9 9 with a King.
C25_Witness ==
    /\ npc = "found"
    /\ OnePairBoard(nboard)
    /\ Cardinality(Singletons(nboard)) = 1
    /\ nuts = Some(FindNuts("PocketOrTwo", <<Nine, <<Nine, Five>>>>))
C25_OutrankedWitness ==
    /\ npc = "answered"
    /\ OnePairBoard(nboard)
    /\ Cardinality(Singletons(nboard)) = 3
    /\ nuts = Some(FindNuts("PocketPair", <<Nine>>))
    /\ nhole = <<Card(Nine, Spades), Card(Nine, Clubs)>>
    /\ nans = Some(TRUE)


\* The kinds of action a BetBound offers, by the name of its variant, and
\* the actions it rejects: a kind it does not offer, or a bet or raise
\* outside its range.
OfferedKinds(bound) ==
    {"Exit", "Fold"}
    \cup (IF bound.kind \in {"FoldCheckAllin", "FoldCheckBetAllin", "FoldCall",
                             "FoldCallAllin", "FoldCallRaiseAllin"}
          THEN {"CheckOrCall"} ELSE {})
    \cup (IF bound.kind \in {"FoldCheckBetAllin", "FoldCallRaiseAllin",
                             "FoldBetAllin", "FoldRaiseAllin"}
          THEN {"BetOrRaise"} ELSE {})
    \cup (IF bound.kind # "FoldCall" THEN {"AllIn"} ELSE {})
Rejected(bound, action) ==
    \/ action.kind \notin OfferedKinds(bound)
    \/ /\ action.kind = "BetOrRaise"
       /\ (action.amount < bound.range[1] \/ action.amount > bound.range[2])
\* The step is a call of op on a Player or an Observer.
CallOf(op) == gcall' # <<>> /\ gcall'.op = op
C26_InvalidWitness ==
    /\ gcall # <<>>
    /\ gcall.op = "send_action"
    /\ gcall.res = "InvalidAction"
    /\ gcall.arg = bet_or_raise(25)[1]
    /\ ends[gcall.who].hero_turn # None
\* A second send_action after the turn was answered.
C26_NotHeroTurnWitness ==
    /\ gcall # <<>>
    /\ gcall.op = "send_action"
    /\ gcall.res = "NotHeroTurn"
    /\ gturns > 0
    /\ shot[gturns] # None
    /\ gpc = "awaiting"


\* The Player or Observer e has seen the game end.
IsOver(e) == ends[e].state = "alive" /\ ends[e].heads_up.game_over # None
\* The channel of e is closed: nothing is queued and no sender is left.
Closed(e) == chan[e] = <<>> /\ ~SenderAlive(e)
\* The event that reports the abort of the game of e: GameAbort in a SNG,
\* AbortCheckout with the stacks in a cash game.
AbortEvent(e) ==
    [kind |-> "Observable",
     event |-> [kind |-> "GameOver",
                body |-> IF ends[e].game_type.kind = "SNG"
                         THEN [kind |-> "GameAbort", player |-> <<>>, stacks |-> <<>>]
                         ELSE [kind |-> "AbortCheckout", player |-> <<>>,
                               stacks |-> ends[e].heads_up.stacks]]]
\* C27: game over is final on the side of a Player or an Observer. Once
\* game_over() is Some(g), no call changes the game state, so it stays
\* Some(g); tick_event returns None and takes no event from the queue;
\* send_action does not return Ok. A tick_event on a closed channel returns
\* GameOver(GameAbort) in a SNG and GameOver(AbortCheckout(stacks)) in a cash
\* game and ends the game of the caller, so that it is reported once; an
\* abort is reported by tick_event on a closed channel only.
C27_GameOverFinal ==
    [][/\ \A e \in Endpoints :
             IsOver(e) /\ ends'[e].state = "alive" =>
                 /\ ends'[e].heads_up = ends[e].heads_up
                 /\ Len(chan'[e]) >= Len(chan[e])
                 /\ SubSeq(chan'[e], 1, Len(chan[e])) = chan[e]
       /\ CallOf("tick_event") =>
             LET e == gcall'.who
                 res == gcall'.res
             IN /\ IsOver(e) <=> res = None
                /\ ~IsOver(e) /\ Closed(e) =>
                      /\ res = Some(AbortEvent(e))
                      /\ ends'[e].heads_up.game_over = Some(AbortEvent(e).event.body)
                /\ res # None /\ res[1].kind = "Observable"
                          /\ res[1].event.kind = "GameOver"
                          /\ res[1].event.body.kind \in {"GameAbort", "AbortCheckout"} =>
                      Closed(e)
       /\ CallOf("send_action") /\ IsOver(gcall'.who) => gcall'.res # "Ok"]_vars
\* A tick_event that returned None to a Player whose game ended by the
\* forced exit of the other one.
C27_Witness ==
    /\ gcall # <<>>
    /\ gcall.op = "tick_event"
    /\ gcall.res = None
    /\ IsOver(gcall.who)
    /\ ends[gcall.who].heads_up.game_over[1].kind = "ExitAbandon"
\* The closed channel reported in a cash game and in a SNG, and to an Observer.
C27_CheckoutWitness ==
    /\ gcall # <<>>
    /\ gcall.op = "tick_event"
    /\ gcall.res # None
    /\ gcall.res[1] = AbortEvent(gcall.who)
    /\ gcall.res[1].event.body.kind = "AbortCheckout"
    /\ gcall.res[1].event.body.stacks = <<50000, 50000>>
C27_AbortWitness ==
    /\ gcall # <<>>
    /\ gcall.op = "tick_event"
    /\ gcall.res # None
    /\ gcall.res[1] = AbortEvent(gcall.who)
    /\ gcall.res[1].event.body.kind = "GameAbort"
C27_ObserverWitness ==
    /\ gcall # <<>>
    /\ gcall.op = "tick_event"
    /\ gcall.who = Ob
    /\ gcall.res # None
    /\ gcall.res[1] = AbortEvent(Ob)
\* A send_action after the game ended.
C27_SendWitness ==
    /\ gcall # <<>>
    /\ gcall.op = "send_action"
    /\ IsOver(gcall.who)
    /\ gcall.res = "NotHeroTurn"


\* The step is a run_hand call of a Game that is over, and one of a Game
\* that is not: the call returns in the step or comes to await the action.
RunsHandOver ==
    gpc = "idle" /\ gpc' = "idle" /\ gret' # gret /\ ggame.heads_up.game_over # None
RunsHand ==
    /\ gpc = "idle"
    /\ gpc' # "dropped"
    /\ gret' # gret \/ gpc' = "awaiting"
    /\ ggame.heads_up.game_over = None
\* The receiver of the channel of endpoint e is gone.
ReceiverGone(e) == ends[e].state = "dropped"
\* The forced exit of the player of endpoint e, by the type of the game
ForcedExit(e) ==
    IF ggame.game_type.kind = "SNG"
    THEN [kind |-> "ExitAbandon", player |-> e = P0, stacks |-> <<>>]
    ELSE [kind |-> "ExitCheckout", player |-> e = P0,
          stacks |-> ggame.heads_up.stacks]
GameOverEvent(game_over) ==
    [kind |-> "Observable", event |-> [kind |-> "GameOver", body |-> game_over]]
\* C28: when the channel of a player is closed as run_hand dispatches the hole
\* cards, run_hand returns the forced exit of that player, of player 0 if
\* both are closed (true for player 0, false for player 1; ExitAbandon in a
\* SNG, ExitCheckout with the stacks in a cash game), the Game is over with
\* it, and the GameOver event is the last one queued for every endpoint that
\* is left. A run_hand of a Game that is over returns its GameOver and
\* changes neither the Game, the deck included, nor any queue. A closed
\* observer channel makes run_hand remove the observer; the Game comes to be
\* over in a run_hand with a closed player channel only.
C28_ForcedExit ==
    [][/\ RunsHand /\ (ReceiverGone(P0) \/ ReceiverGone(P1)) =>
            LET game_over == ForcedExit(IF ReceiverGone(P0) THEN P0 ELSE P1)
            IN /\ gret' = Append(gret, Some(game_over))
               /\ ggame'.heads_up.game_over = Some(game_over)
               /\ \A e \in Receivers :
                     /\ Len(chan'[e]) > Len(chan[e])
                     /\ chan'[e][Len(chan'[e])] = GameOverEvent(game_over)
       /\ RunsHandOver =>
            /\ gret' = Append(gret, ggame.heads_up.game_over)
            /\ ggame' = ggame
            /\ chan' = chan
       /\ RunsHand /\ ggame.observer # None /\ ReceiverGone(Ob) =>
            /\ ggame'.observer = None
            /\ ~ReceiverGone(P0) /\ ~ReceiverGone(P1) =>
                  ggame'.heads_up.game_over = None /\ gpc' = "awaiting"
       /\ gpc = "idle" /\ gpc' # "dropped" /\ ggame.heads_up.game_over = None
                 /\ ggame'.heads_up.game_over # None =>
            RunsHand /\ (ReceiverGone(P0) \/ ReceiverGone(P1))]_vars
\* The forced exit of player 0 from a SNG, returned by two run_hand calls,
\* with the GameOver event queued for player 1.
C28_Witness ==
    /\ Len(gret) = 2
    /\ gret[1] = Some([kind |-> "ExitAbandon", player |-> TRUE, stacks |-> <<>>])
    /\ gret[2] = gret[1]
    /\ ends[P1].state = "alive"
    /\ chan[P1] # <<>>
    /\ chan[P1][Len(chan[P1])] = GameOverEvent(gret[1][1])
\* The forced exit of player 1 from a cash game
C28_CheckoutWitness ==
    /\ gret # <<>>
    /\ gret[1] = Some([kind |-> "ExitCheckout", player |-> FALSE,
                       stacks |-> <<50000, 50000>>])
    /\ ends[P0].state = "alive"
\* Both players closed: player 0 is the one named.
C28_BothWitness ==
    /\ gret # <<>>
    /\ gret[1] # None
    /\ gret[1][1].player = TRUE
    /\ ends[P0].state = "dropped"
    /\ ends[P1].state = "dropped"
\* The observer removed by a run_hand that goes on to the turn of a player
C28_ObserverWitness ==
    /\ gpc = "awaiting"
    /\ ends[Ob].state = "dropped"
    /\ ggame.observer = None
    /\ ggame.heads_up.game_over = None


\* C29: find_nuts depends only on which cards are on the board, not on their
\* order, and is_nuts not on the order of the two hole cards: the descriptor
\* of a board accepts exactly the holdings the descriptor of the same cards
\* in ascending order accepts (and panics only where that one does), and
\* is_nuts answers {a, b} as it answers {b, a}.
AllHoles ==
    {h \in FullDeck \X FullDeck : Card_as_u8(h[1]) < Card_as_u8(h[2])}
SameHoldings(d, e) ==
    \A h \in AllHoles : FindNuts_eq(d, h) = FindNuts_eq(e, h)
C29_OrderIndependent ==
    /\ npc = "found" =>
          LET other == find_nuts(sort_by_as_u8(nboard))
          IN /\ other.kind # "unreachable"
             /\ SameHoldings(nuts[1], other)
    /\ npc = "panicked" => find_nuts(sort_by_as_u8(nboard)).kind = "unreachable"
    /\ npc = "answered" =>
          /\ nans = Some(is_nuts(nboard, Reverse(nhole)))
          /\ nans = Some(is_nuts(sort_by_as_u8(nboard), nhole))
\* The board 8h 5h 7h 6h, not in ascending order, and the holding Ac 9h
\* with the key card second.
C29_Witness ==
    /\ npc = "answered"
    /\ nboard = <<Card(Eight, Hearts), Card(Five, Hearts), Card(Seven, Hearts),
                  Card(Six, Hearts)>>
    /\ nhole = <<Card(Ace, Clubs), Card(Nine, Hearts)>>
    /\ nans = Some(TRUE)


\* C30: every descriptor find_nuts returns for a board of 3 to 5 cards is
\* well formed: each holding listed in OneHole, TwoHoles or ThreeHoles
\* consists of two different cards neither of which is on the board, and the
\* card named by CardPlusAny or CardPlusAnySuited is not on the board.
ListsHoles(d) == d.kind \in {"OneHole", "TwoHoles", "ThreeHoles"}
NamesCard(d) == d.kind \in {"CardPlusAny", "CardPlusAnySuited"}
C30_DescriptorWellFormed ==
    nuts # None =>
        /\ ListsHoles(nuts[1]) =>
              \A i \in DOMAIN nuts[1].fields :
                  LET hole == nuts[1].fields[i]
                  IN /\ Len(hole) = 2
                     /\ hole[1] # hole[2]
                     /\ Range(hole) \cap Range(nboard) = {}
        /\ NamesCard(nuts[1]) => nuts[1].fields[1] \notin Range(nboard)
\* A descriptor of three holdings, one of two, one of one, and the two that
\* name a card.
C30_Witness ==
    /\ npc = "found"
    /\ nuts # None
    /\ nuts[1].kind = "ThreeHoles"
C30_TwoHolesWitness == npc = "found" /\ nuts # None /\ nuts[1].kind = "TwoHoles"
C30_OneHoleWitness == npc = "found" /\ nuts # None /\ nuts[1].kind = "OneHole"
C30_CardWitness == npc = "found" /\ nuts # None /\ nuts[1].kind = "CardPlusAny"
C30_SuitedWitness == npc = "found" /\ nuts # None /\ nuts[1].kind = "CardPlusAnySuited"

=============================================================================
